---- MODULE Spec2Model ----
(***************************************************************************)
(* State-machine model of the Daily Tracker storage layer                  *)
(* (server/storage.ts: DatabaseStorage over a relational database with an  *)
(* in-memory fallback) and of the OTP recovery routes (server/routes.ts).  *)
(***************************************************************************)
EXTENDS Integers, Sequences, FiniteSets, TLC

\* ------------------------------------------------------------------ bounds
MaxTime == 2
MaxIds == 2
\* store calls made in one run of the whole interface, and of the OTP calls
MaxCalls == 2
MaxOtpCalls == 3
\* requests served in one run of the account-recovery routes
MaxRequests == 3
\* store calls, and identifiers handed out, in one run of the account calls
MaxAccountCalls == 5
MaxAccountIds == 4
\* quota calls made in one run of the quota counter
MaxQuotaCalls == 6
\* register, login and logout requests served in one run of the chat routes
MaxChatRequests == 6
\* chat requests of one user awaiting the model's answer at once
MaxInFlight == 2
\* tokens of a connection string in the environment
MaxUrlLen == 4
\* applications of autoFixDatabaseUrl to its own output
MaxFixes == 2
\* requests served in one run of the task routes
MaxTaskRequests == 3
\* days the clock of the task routes runs
MaxDays == 6
\* store calls made in one run of the list operations
MaxListCalls == 4
\* requests served in one run of the job routes
MaxJobRequests == 3
\* register and update-info requests received in one run of the user routes
MaxUserRequests == 3
\* WebSocket clients that connect in one run of the broadcast
MaxClients == 3
\* broadcasts made in one run
MaxBroadcasts == 2
\* requests served in one run of the entity routes
MaxRouteRequests == 3
\* requests served in one run of the file and folder routes
MaxFileRequests == 4
\* store calls made in one run of the start-up
MaxStartupCalls == 2
\* storeOtp calls made in one run of the concurrent issuance
MaxOtpRaceCalls == 3

\* ------------------------------------------------------- program constants
\* expiresAt = Date.now() + 5 * 60 * 1000; the model clock counts periods of
\* five minutes, so a code lives for one period
OtpTtl == 1

\* ------------------------------------------------------------ input values
Identifiers == {"a@x", "b@x"}
Phones == {"555"}
OtpValues == {"111111", "222222"}
OtpTypes == {"email", "phone"}
Emails == Identifiers
Usernames == {"ann"}
Passwords == {"pw1", "pw2"}
Owners == {1, 2}
Titles == {"t1", "t2"}

Clients == {"c1"}
NoSession == 0
\* no logout of the client is awaiting req.session.destroy
NotLeaving == 0 - 1

Void == "void"
NoOtp == "none"
\* an optional value (`T | undefined`): the empty set is undefined
None == {}
Some(v) == {v}
\* a null timestamp
NullDate == 0 - 1

VARIABLES
  db,                  \* this.db is non-null (a connection string was configured)
  useInMemoryStorage,  \* this.useInMemoryStorage
  database,            \* the tables behind this.db
  memoryStore,         \* the module-level in-memory maps
  userQuotas,          \* this.userQuotas
  now,                 \* Date.now(), in periods of five minutes
  nextId,              \* number of identifiers handed out so far
  callsLeft,           \* number of store calls / requests still to be made
  last,                \* the call that has just completed: arguments, result, effects
  dbErrorCaught,       \* some store operation has caught a database error
  otpLog,              \* per (identifier, type): the issuance history of its codes
  sessions,            \* per client: req.session.userId (0: no user)
  accepted,            \* the <<identifier, type, otp>> a completed request has verified
                       \* since the pair's latest issuance
  chats,               \* per user: the chat requests awaiting the model's answer
  leaving,             \* per client: the userId a logout request read, while its
                       \* req.session.destroy is pending
  quotaLog,            \* per user: incrementUserQuota calls since the last
                       \* resetUserQuota, and whether the user has logged out and
                       \* no chat of the user has succeeded since
  DATABASE_URL,        \* process.env.DATABASE_URL: whether it is set, and its text
  pending,             \* the handlers and store calls suspended at an await of the
                       \* database, each with what it holds in its local variables
  startup,             \* the module scope of storage.ts: its own useInMemoryStorage
                       \* binding, and whether the callback of the connection
                       \* test is still to come
  wss                  \* wss.clients: per WebSocket client its readyState and the
                       \* messages handed to its send

vars == <<db, useInMemoryStorage, database, memoryStore, userQuotas, now, nextId, callsLeft,
          last, dbErrorCaught, otpLog, sessions, accepted, chats, leaving,
          quotaLog, DATABASE_URL, startup, pending, wss>>

\* ------------------------------------------------------------ Map helpers
EmptyMap == <<>>
MapHas(m, k) == k \in DOMAIN m
MapSet(m, k, v) == [x \in (DOMAIN m) \cup {k} |-> IF x = k THEN v ELSE m[x]]
MapDelete(m, k) == [x \in (DOMAIN m) \ {k} |-> m[x]]
MapValues(m) == {m[k] : k \in DOMAIN m}

\* ------------------------------------------------------- the store object
\* The fields of the DatabaseStorage instance together with the state they
\* reach, passed through the operations as one value.
Store == [db |-> db, useInMemoryStorage |-> useInMemoryStorage,
          database |-> database, memoryStore |-> memoryStore,
          userQuotas |-> userQuotas]

EmptyTables == [users |-> {}, jobs |-> {}, tasks |-> {}, notes |-> {},
                files |-> {}, folders |-> {}, otpCodes |-> {}]
EmptyMemoryStore == [users |-> EmptyMap, jobs |-> EmptyMap, tasks |-> EmptyMap,
                     notes |-> EmptyMap, files |-> EmptyMap, folders |-> EmptyMap,
                     otpCodes |-> EmptyMap]

\* `!this.db || this.useInMemoryStorage`
InMemoryMode(s) == (~s.db) \/ s.useInMemoryStorage

\* --------------------------------------------- control flow of one call
\* A call in progress: the store, the value returned, whether an exception
\* is propagating, and the number of database statements issued so far.
Begin(s) == [s |-> s, ret |-> Void, raised |-> FALSE, dbCalls |-> 0, threw |-> FALSE]
Return(c, v) == [c EXCEPT !.ret = v]

\* `await this.db.<statement>`: the statement is the (dbCalls+1)-th of the
\* call; it throws when the fault index f names it, else it leaves the
\* tables as newTables.
DbExec(c, f, newTables) ==
  LET n == c.dbCalls + 1
  IN IF c.raised THEN c
     ELSE IF f = n THEN [c EXCEPT !.raised = TRUE, !.threw = TRUE, !.dbCalls = n]
     ELSE [c EXCEPT !.s.database = newTables, !.dbCalls = n]

\* a catch block that lets the exception go on to the caller
CatchRethrows(c) == c

\* `catch (error) { ... }`: the exception stops propagating
Catch(c) == [c EXCEPT !.raised = FALSE]

\* `this.useInMemoryStorage = true` in a catch block
Failover(c) == [c EXCEPT !.s.useInMemoryStorage = TRUE]

\* ------------------------------------------------------------------- OTP
OtpKey(identifier, type) == <<identifier, ":", type>>
OtpDeleteKey(identifier, type) == <<identifier, "-", type>>

\* the (identifier, type) pairs the routes use: an email with 'email', a
\* phone number with 'phone'
OtpPairs == (Identifiers \X {"email"}) \cup (Phones \X {"phone"})

DbOtpFor(tables, identifier, type) ==
  {r \in tables.otpCodes : r.identifier = identifier /\ r.type = type}

deleteOtpFrom(c, identifier, type, f) ==
  LET InMemory(cc) ==
        Return([cc EXCEPT !.s.memoryStore.otpCodes =
                            MapDelete(@, OtpDeleteKey(identifier, type))], Void)
      c1 == DbExec(c, f, [c.s.database EXCEPT !.otpCodes =
                            @ \ DbOtpFor(c.s.database, identifier, type)])
  IN IF InMemoryMode(c.s) THEN InMemory(c)
     ELSE IF c1.raised THEN InMemory(Failover(Catch(c1)))
     ELSE Return(c1, Void)

deleteOtp(s, identifier, type, f) == deleteOtpFrom(Begin(s), identifier, type, f)

storeOtp(s, identifier, otp, type, t, f) ==
  LET expiresAt == t + OtpTtl
      rec == [identifier |-> identifier, otp |-> otp, type |-> type,
              expiresAt |-> expiresAt]
      InMemory(cc) ==
        Return([cc EXCEPT !.s.memoryStore.otpCodes =
                            MapSet(@, OtpKey(identifier, type), rec)], Void)
      c0 == Begin(s)
      c1 == DbExec(c0, f, [s.database EXCEPT !.otpCodes =
                             @ \ DbOtpFor(s.database, identifier, type)])
      c2 == DbExec(c1, f, [c1.s.database EXCEPT !.otpCodes = @ \cup {rec}])
  IN IF s.db
       THEN IF c2.raised THEN InMemory(Catch(c2)) ELSE Return(c2, Void)
       ELSE InMemory(c0)

verifyOtp(s, identifier, otp, type, t, f) ==
  LET k == OtpKey(identifier, type)
      InMemory(cc) ==
        LET m == cc.s.memoryStore.otpCodes
        IN IF ~MapHas(m, k) THEN Return(cc, FALSE)
           ELSE IF t > m[k].expiresAt
             THEN Return([cc EXCEPT !.s.memoryStore.otpCodes = MapDelete(m, k)], FALSE)
           ELSE Return(cc, m[k].otp = otp)
      c0 == Begin(s)
      c1 == DbExec(c0, f, s.database)
      result == {r \in DbOtpFor(s.database, identifier, type) : r.otp = otp}
      otpRecord == CHOOSE r \in result : TRUE
      c2 == deleteOtpFrom(c1, identifier, type, f)
  IN IF s.db
       THEN IF c1.raised THEN InMemory(Catch(c1))
            ELSE IF result # {}
              THEN IF t > otpRecord.expiresAt
                     THEN IF c2.raised THEN InMemory(Catch(c2)) ELSE Return(c2, FALSE)
                     ELSE Return(c1, TRUE)
              ELSE InMemory(c1)
       ELSE InMemory(c0)

\* ------------------------------------------- the failover pattern of an op
\* if (!this.db || this.useInMemoryStorage) { <memory> }
\* try { <database> } catch { this.useInMemoryStorage = true; <memory> }
WithFailover(s, DbBody(_), MemBody(_)) ==
  IF InMemoryMode(s) THEN MemBody(Begin(s))
  ELSE LET c == DbBody(Begin(s))
       IN IF c.raised THEN MemBody(Failover(Catch(c))) ELSE c

Min(S) == CHOOSE x \in S : \A y \in S : x <= y

\* Array.from(map.values()).find(p): the first match in insertion order;
\* identifiers are handed out in increasing order and Map.set keeps the
\* position of an existing key.
MemFind(m, P(_)) ==
  LET ids == {k \in DOMAIN m : P(m[k])}
  IN IF ids = {} THEN None ELSE Some(m[Min(ids)])

\* `const [row] = await select ... where p` / `.limit(1)`
DbFirst(rows, P(_)) ==
  LET hit == {r \in rows : P(r)}
  IN IF hit = {} THEN None ELSE Some(CHOOSE r \in hit : TRUE)

\* rows in insertion order, whatever their createdAt
RECURSIVE SortById(_)
SortById(rows) ==
  IF rows = {} THEN <<>>
  ELSE LET first == CHOOSE r \in rows : \A q \in rows : r.id <= q.id
       IN <<first>> \o SortById(rows \ {first})

\* rows ordered by createdAt descending; rows of equal createdAt keep
\* insertion order (Array.prototype.sort is stable)
RECURSIVE SortDesc(_)
SortDesc(rows) ==
  IF rows = {} THEN <<>>
  ELSE LET first == CHOOSE r \in rows :
                      \A q \in rows : r.createdAt > q.createdAt
                                      \/ (r.createdAt = q.createdAt /\ r.id <= q.id)
       IN <<first>> \o SortDesc(rows \ {first})

Range(seq) == {seq[i] : i \in DOMAIN seq}

\* ----------------------------------------------------------------- Users
UniqueViolation(tables, user) ==
  \E u \in tables.users : u.id # user.id /\ (u.email = user.email \/ u.phone = user.phone)

\* a database statement that also throws when a constraint is violated
DbExecChecked(c, f, violates, newTables) ==
  IF (~c.raised) /\ violates
    THEN [c EXCEPT !.raised = TRUE, !.threw = TRUE, !.dbCalls = c.dbCalls + 1]
    ELSE DbExec(c, f, newTables)

createUser(s, user, id, f) ==
  LET newUser == [id |-> id, username |-> user.username, email |-> user.email,
                  phone |-> user.phone, password |-> user.password]
  IN WithFailover(s,
       LAMBDA c : Return(DbExecChecked(c, f, UniqueViolation(c.s.database, newUser),
                           [c.s.database EXCEPT !.users = @ \cup {newUser}]), newUser),
       LAMBDA c : Return([c EXCEPT !.s.memoryStore.users = MapSet(@, id, newUser)],
                         newUser))

getUserWhere(s, P(_), f) ==
  WithFailover(s,
    LAMBDA c : Return(DbExec(c, f, c.s.database), DbFirst(c.s.database.users, P)),
    LAMBDA c : Return(c, MemFind(c.s.memoryStore.users, P)))

getUserByUsername(s, username, f) == getUserWhere(s, LAMBDA u : u.username = username, f)
getUserByEmail(s, email, f) == getUserWhere(s, LAMBDA u : u.email = email, f)
getUserByPhone(s, phone, f) == getUserWhere(s, LAMBDA u : u.phone = phone, f)
getUserById(s, id, f) == getUserWhere(s, LAMBDA u : u.id = id, f)

getOriginalPassword(s, userId) == Return(Begin(s), None)

\* the rows of a table with every row matching P replaced by Upd(row)
UpdateRows(rows, P(_), Upd(_)) == {IF P(r) THEN Upd(r) ELSE r : r \in rows}

updatePassword(s, userId, hashedPassword, f) ==
  WithFailover(s,
    LAMBDA c : Return(DbExec(c, f, [c.s.database EXCEPT !.users =
                        UpdateRows(@, LAMBDA u : u.id = userId,
                                   LAMBDA u : [u EXCEPT !.password = hashedPassword])]),
                      \E u \in c.s.database.users : u.id = userId),
    LAMBDA c : IF ~MapHas(c.s.memoryStore.users, userId) THEN Return(c, FALSE)
               ELSE Return([c EXCEPT !.s.memoryStore.users[userId].password =
                                       hashedPassword], TRUE))

\* updates: a record holding the supplied ones of username, email, phone
MergeFields(rec, upd) ==
  [k \in DOMAIN rec |-> IF k \in DOMAIN upd THEN upd[k] ELSE rec[k]]

updateUserInfo(s, userId, updates, f) ==
  WithFailover(s,
    LAMBDA c :
      LET old == {u \in c.s.database.users : u.id = userId}
          new == {MergeFields(u, updates) : u \in old}
      IN Return(DbExecChecked(c, f,
                  \E u \in new : UniqueViolation(c.s.database, u),
                  [c.s.database EXCEPT !.users = (@ \ old) \cup new]),
                old # {}),
    LAMBDA c : IF ~MapHas(c.s.memoryStore.users, userId) THEN Return(c, FALSE)
               ELSE Return([c EXCEPT !.s.memoryStore.users[userId] =
                                       MergeFields(@, updates)], TRUE))

updatePasswordByEmail(s, email, hashedPassword, f) ==
  WithFailover(s,
    LAMBDA c :
      LET c1 == DbExec(c, f, c.s.database)
          existingUser == {u \in c.s.database.users : u.email = email}
      IN IF c1.raised THEN c1
         ELSE IF existingUser = {} THEN Return(c1, FALSE)
         ELSE Return(DbExec(c1, f, [c1.s.database EXCEPT !.users =
                       UpdateRows(@, LAMBDA u : u.email = email,
                                  LAMBDA u : [u EXCEPT !.password = hashedPassword])]),
                     TRUE),
    LAMBDA c :
      LET user == MemFind(c.s.memoryStore.users, LAMBDA u : u.email = email)
      IN IF user = None THEN Return(c, FALSE)
         ELSE LET u == CHOOSE x \in user : TRUE
              IN Return([c EXCEPT !.s.memoryStore.users[u.id].password =
                                    hashedPassword], TRUE))

OwnedBy(m, userId) == {k \in DOMAIN m : m[k].userId = userId}
DropKeys(m, ks) == [x \in (DOMAIN m) \ ks |-> m[x]]

\* deleteUser that removes the user and none of the user's records
deleteUserOnly(s, userId, f) ==
  WithFailover(s,
    LAMBDA c :
      LET c1 == DbExec(c, f, c.s.database)
          existingUser == {u \in c.s.database.users : u.id = userId}
      IN IF c1.raised THEN c1
         ELSE IF existingUser = {} THEN Return(c1, FALSE)
         ELSE Return(DbExec(c1, f, [c1.s.database EXCEPT
                                      !.users = {u \in @ : u.id # userId}]), TRUE),
    LAMBDA c :
      IF ~MapHas(c.s.memoryStore.users, userId) THEN Return(c, FALSE)
      ELSE Return([c EXCEPT !.s.memoryStore.users = MapDelete(@, userId)], TRUE))

deleteUser(s, userId, f) ==
  WithFailover(s,
    LAMBDA c :
      LET c1 == DbExec(c, f, c.s.database)
          existingUser == {u \in c.s.database.users : u.id = userId}
          Del(cc, tbl) == DbExec(cc, f, [cc.s.database EXCEPT ![tbl] =
                                           {r \in @ : r.userId # userId}])
          c5 == DbExec(Del(Del(Del(c1, "jobs"), "tasks"), "notes"), f,
                       [Del(Del(Del(c1, "jobs"), "tasks"), "notes").s.database
                          EXCEPT !.users = {u \in @ : u.id # userId}])
      IN IF c1.raised THEN c1
         ELSE IF existingUser = {} THEN Return(c1, FALSE)
         ELSE Return(c5, TRUE),
    LAMBDA c :
      LET m == c.s.memoryStore
      IN IF ~MapHas(m.users, userId) THEN Return(c, FALSE)
         ELSE Return([c EXCEPT !.s.memoryStore =
                        [m EXCEPT !.jobs = DropKeys(@, OwnedBy(@, userId)),
                                  !.tasks = DropKeys(@, OwnedBy(@, userId)),
                                  !.notes = DropKeys(@, OwnedBy(@, userId)),
                                  !.users = MapDelete(@, userId)]], TRUE))

\* ------------------------------------- Jobs, Tasks, Notes, Files, Folders
\* `getAllX(userId)`: the rows of the table that satisfy P, newest first
ListRecords(s, tbl, P(_), f) ==
  WithFailover(s,
    LAMBDA c : Return(DbExec(c, f, c.s.database),
                      SortDesc({r \in c.s.database[tbl] : P(r)})),
    LAMBDA c : Return(c, SortDesc({r \in MapValues(c.s.memoryStore[tbl]) : P(r)})))

\* `getXById(id)`
GetRecord(s, tbl, id, f) ==
  WithFailover(s,
    LAMBDA c : Return(DbExec(c, f, c.s.database),
                      DbFirst(c.s.database[tbl], LAMBDA r : r.id = id)),
    LAMBDA c : Return(c, IF MapHas(c.s.memoryStore[tbl], id)
                           THEN Some(c.s.memoryStore[tbl][id]) ELSE None))

\* `createX(data)`: dbRec is the row the insert returns, memRec the record
\* the in-memory branch builds
CreateRecord(s, tbl, dbRec, memRec, f) ==
  WithFailover(s,
    LAMBDA c : Return(DbExec(c, f, [c.s.database EXCEPT ![tbl] = @ \cup {dbRec}]),
                      dbRec),
    LAMBDA c : Return([c EXCEPT !.s.memoryStore[tbl] = MapSet(@, memRec.id, memRec)],
                      memRec))

\* `updateX(id, partial)`: { ...existing, ...partial, updatedAt: new Date() }
Merged(rec, upd, t) == [MergeFields(rec, upd) EXCEPT !.updatedAt = t]

UpdateRecord(s, tbl, id, upd, t, f) ==
  WithFailover(s,
    LAMBDA c :
      LET old == {r \in c.s.database[tbl] : r.id = id}
          new == {Merged(r, upd, t) : r \in old}
      IN Return(DbExec(c, f, [c.s.database EXCEPT ![tbl] = (@ \ old) \cup new]), new),
    LAMBDA c :
      IF ~MapHas(c.s.memoryStore[tbl], id) THEN Return(c, None)
      ELSE LET updated == Merged(c.s.memoryStore[tbl][id], upd, t)
           IN Return([c EXCEPT !.s.memoryStore[tbl][id] = updated], Some(updated)))

\* `deleteX(id)` for jobs, tasks, notes and folders
DeleteRecord(s, tbl, id, f) ==
  WithFailover(s,
    LAMBDA c : Return(DbExec(c, f, [c.s.database EXCEPT ![tbl] =
                                      {r \in @ : r.id # id}]),
                      \E r \in c.s.database[tbl] : r.id = id),
    LAMBDA c : Return([c EXCEPT !.s.memoryStore[tbl] = MapDelete(@, id)],
                      MapHas(c.s.memoryStore[tbl], id)))

\* userId: data.userId || 'default-user'
DefaultUser == 0
OrDefaultUser(userId) == IF userId \in Owners THEN userId ELSE DefaultUser

NewJob(job, id, t) ==
  [id |-> id, userId |-> OrDefaultUser(job.userId), title |-> job.title,
   createdAt |-> t, updatedAt |-> t]
NewTask(task, id, t) ==
  [id |-> id, userId |-> OrDefaultUser(task.userId), url |-> task.url,
   createdAt |-> t, updatedAt |-> t]
NewNote(note, id, t) ==
  [id |-> id, userId |-> OrDefaultUser(note.userId), title |-> note.title,
   createdAt |-> t, updatedAt |-> t]
NewFolder(folder, id, t) ==
  [id |-> id, userId |-> OrDefaultUser(folder.userId), name |-> folder.name,
   createdAt |-> t, updatedAt |-> t]
NewFile(file, id, t) ==
  [id |-> id, userId |-> OrDefaultUser(file.userId), name |-> file.name,
   isTrashed |-> FALSE, trashedAt |-> NullDate, createdAt |-> t, updatedAt |-> t]

getAllJobs(s, userId, f) == ListRecords(s, "jobs", LAMBDA r : r.userId = userId, f)
createJob(s, job, id, t, f) == CreateRecord(s, "jobs", NewJob(job, id, t), NewJob(job, id, t), f)
updateJob(s, id, jobUpdate, t, f) == UpdateRecord(s, "jobs", id, jobUpdate, t, f)
deleteJob(s, id, f) == DeleteRecord(s, "jobs", id, f)

getAllTasks(s, userId, f) == ListRecords(s, "tasks", LAMBDA r : r.userId = userId, f)
getTasksSince(s, userId, since, f) ==
  ListRecords(s, "tasks", LAMBDA r : r.userId = userId /\ r.createdAt >= since, f)
createTask(s, task, id, t, f) == CreateRecord(s, "tasks", NewTask(task, id, t), NewTask(task, id, t), f)
updateTask(s, id, taskUpdate, t, f) == UpdateRecord(s, "tasks", id, taskUpdate, t, f)
deleteTask(s, id, f) == DeleteRecord(s, "tasks", id, f)

getAllNotes(s, userId, f) == ListRecords(s, "notes", LAMBDA r : r.userId = userId, f)
createNote(s, note, id, t, f) == CreateRecord(s, "notes", NewNote(note, id, t), NewNote(note, id, t), f)
updateNote(s, id, noteData, t, f) == UpdateRecord(s, "notes", id, noteData, t, f)
deleteNote(s, id, f) == DeleteRecord(s, "notes", id, f)

getAllFiles(s, userId, f) ==
  ListRecords(s, "files", LAMBDA r : r.userId = userId /\ ~r.isTrashed, f)
getFileById(s, id, f) == GetRecord(s, "files", id, f)
createFile(s, file, id, t, f) == CreateRecord(s, "files", NewFile(file, id, t), NewFile(file, id, t), f)
updateFile(s, id, fileData, t, f) == UpdateRecord(s, "files", id, fileData, t, f)

\* a trash flag set with no date
Flagged(file, t) == [file EXCEPT !.isTrashed = TRUE]

\* soft delete: isTrashed = true, trashedAt = new Date()
Trashed(file, t) == [file EXCEPT !.isTrashed = TRUE, !.trashedAt = t]

deleteFile(s, id, t, f) ==
  WithFailover(s,
    LAMBDA c : Return(DbExec(c, f, [c.s.database EXCEPT !.files =
                        UpdateRows(@, LAMBDA r : r.id = id, LAMBDA r : Trashed(r, t))]),
                      \E r \in c.s.database.files : r.id = id),
    LAMBDA c : IF MapHas(c.s.memoryStore.files, id)
                 THEN Return([c EXCEPT !.s.memoryStore.files[id] = Trashed(@, t)], TRUE)
                 ELSE Return(c, FALSE))

getAllFolders(s, userId, f) == ListRecords(s, "folders", LAMBDA r : r.userId = userId, f)
getFolderById(s, id, f) == GetRecord(s, "folders", id, f)
createFolder(s, folder, id, t, f) == CreateRecord(s, "folders", NewFolder(folder, id, t), NewFolder(folder, id, t), f)
updateFolder(s, id, folderData, t, f) == UpdateRecord(s, "folders", id, folderData, t, f)
deleteFolder(s, id, f) == DeleteRecord(s, "folders", id, f)

\* ----------------------------------------------------------------- Quota
getUserQuota(s, userId) ==
  Return(Begin(s), IF MapHas(s.userQuotas, userId) THEN s.userQuotas[userId] ELSE 0)

incrementUserQuota(s, userId) ==
  LET current == IF MapHas(s.userQuotas, userId) THEN s.userQuotas[userId] ELSE 0
  IN Return([Begin(s) EXCEPT !.s.userQuotas = MapSet(@, userId, current + 1)], Void)

\* resetUserQuota that keeps the count
resetUserQuotaKept(s, userId) == Return(Begin(s), Void)

resetUserQuota(s, userId) ==
  Return([Begin(s) EXCEPT !.s.userQuotas = MapDelete(@, userId)], Void)

\* ------------------------------------------------- the connection string
\* A string is a sequence of tokens: the characters and substrings that
\* autoFixDatabaseUrl tests for, matches or writes.  "'" is either quote
\* character, " " a whitespace character, "ep-a." a Neon endpoint id with the
\* dot that ends it, "require" a run of characters without any of the others.
UrlTokens == {"'", " ", "?", "&", "neon.tech", "supabase.co", "ep-a.", "sslmode=",
              "channel_binding=", "require"}
UrlStrings == UNION {[1..n -> UrlTokens] : n \in 0..MaxUrlLen}

NoUrl == [set |-> FALSE, text |-> <<>>]
Url(text) == [set |-> TRUE, text |-> text]

\* str.includes(tok), and str.includes of two adjacent tokens
Includes(str, tok) == \E i \in 1..Len(str) : str[i] = tok
IncludesPair(str, a, b) == \E i \in 1..(Len(str) - 1) : str[i] = a /\ str[i + 1] = b

DropLast(str) == SubSeq(str, 1, Len(str) - 1)

\* str.trim()
RECURSIVE TrimStart(_)
TrimStart(str) ==
  IF str # <<>> /\ Head(str) = " " THEN TrimStart(Tail(str)) ELSE str
RECURSIVE TrimEnd(_)
TrimEnd(str) ==
  IF str # <<>> /\ str[Len(str)] = " " THEN TrimEnd(DropLast(str)) ELSE str
Trim(str) == TrimEnd(TrimStart(str))

\* str.replace(/^['"]|['"]$/g, ''): one quote at the start and one at the end
StripQuotes(str) ==
  LET atStart == str # <<>> /\ str[1] = "'"
      atEnd == Len(str) > (IF atStart THEN 1 ELSE 0) /\ str[Len(str)] = "'"
  IN SubSeq(str, IF atStart THEN 2 ELSE 1, IF atEnd THEN Len(str) - 1 ELSE Len(str))

\* where the match of [^&]* that starts at position i ends: the position of
\* the next "&", or one past the end
RECURSIVE ValueEnd(_, _)
ValueEnd(str, i) ==
  IF i <= Len(str) /\ str[i] # "&" THEN ValueEnd(str, i + 1) ELSE i

\* str.replace(/[seps]key[^&]*/, '') and str.replace(/[seps]key[^&]*(&|$)/, '$1'):
\* the first separator followed by the key goes, with the key and its value
RemoveParam(str, seps, key) ==
  LET starts == {i \in 1..(Len(str) - 1) : str[i] \in seps /\ str[i + 1] = key}
      i == CHOOSE x \in starts : \A y \in starts : x <= y
  IN IF starts = {} THEN str
     ELSE SubSeq(str, 1, i - 1) \o SubSeq(str, ValueEnd(str, i + 2), Len(str))

\* str.replace(/[?&]$/, '')
DropTrailingSeparator(str) ==
  IF str # <<>> /\ str[Len(str)] \in {"?", "&"} THEN DropLast(str) ELSE str

\* str.replace(/(ep-[^.]+)\./, '$1-pooler.'): the first endpoint id
Pooled(str) ==
  [i \in 1..Len(str) |->
     IF str[i] = "ep-a." /\ \A j \in 1..(i - 1) : str[j] # "ep-a."
       THEN "ep-a-pooler." ELSE str[i]]

\* autoFixDatabaseUrl() with process.env.DATABASE_URL = env
autoFixDatabaseUrl(env) ==
  LET dbUrl == env.text
      unquoted == StripQuotes(Trim(dbUrl))
      unbound == IF Includes(unquoted, "channel_binding=")
                   THEN RemoveParam(unquoted, {"&", "?"}, "channel_binding=")
                 ELSE unquoted
      cleaned == DropTrailingSeparator(unbound)
      secured == IF ~Includes(cleaned, "sslmode=")
                   THEN cleaned \o <<IF Includes(cleaned, "?") THEN "&" ELSE "?",
                                     "sslmode=", "require">>
                 ELSE cleaned
      neon == IF ~Includes(secured, "ep-a-pooler.") THEN Pooled(secured) ELSE secured
      supabase == IF IncludesPair(unquoted, "?", "sslmode=")
                    THEN RemoveParam(unquoted, {"?"}, "sslmode=")
                  ELSE IF IncludesPair(unquoted, "&", "sslmode=")
                    THEN RemoveParam(unquoted, {"&"}, "sslmode=")
                  ELSE unquoted
  IN IF ~env.set \/ dbUrl = <<>> THEN <<>>
     ELSE IF Includes(dbUrl, "neon.tech") THEN neon
     ELSE IF Includes(dbUrl, "supabase.co") THEN supabase
     ELSE dbUrl

\* ================================================================ actions
NoCall == [op |-> "none", args |-> <<>>, ret |-> Void, raised |-> FALSE,
           dbCalls |-> 0, threw |-> FALSE, errBefore |-> FALSE]

NoLog == [cur |-> NoOtp, prev |-> NoOtp, issuedAt |-> 0, consumed |-> FALSE]

\* Construction (storage.ts:15-54, 133-139): without a connection string db
\* stays null and the flag is set; with one, db is the drizzle handle and
\* the flag is false.  Every map is empty, and so is every table unless the
\* database kept rows (persisted) from an earlier run.
InitFrom(urls, budget, persisted) ==
  /\ DATABASE_URL \in urls
  /\ db = (autoFixDatabaseUrl(DATABASE_URL) # <<>>)
  /\ useInMemoryStorage = ~db
  /\ database \in {EmptyTables} \cup {t \in persisted : db}
  /\ memoryStore = EmptyMemoryStore
  /\ userQuotas = EmptyMap
  /\ now = 0
  /\ nextId = Cardinality(database.users)
  /\ callsLeft = budget
  /\ last = NoCall
  /\ dbErrorCaught = FALSE
  /\ otpLog = [p \in OtpPairs |-> NoLog]
  /\ sessions = [c \in Clients |-> NoSession]
  /\ accepted = {}
  /\ chats = [u \in Owners \cup (1..MaxIds) |-> 0]
  /\ leaving = [c \in Clients |-> NotLeaving]
  /\ pending = {}
  /\ wss = <<>>
  /\ startup = [useInMemoryStorage |-> ~db, testing |-> db]
  /\ quotaLog = [u \in Owners \cup (1..MaxIds) |-> [count |-> 0, loggedOut |-> FALSE]]

\* the environments of a deployment: no connection string, or a Neon one
ConfiguredUrls == {NoUrl, Url(<<"ep-a.", "neon.tech">>)}

InitWith(budget, persisted) == InitFrom(ConfiguredUrls, budget, persisted)

Init == InitWith(MaxCalls, {})
InitOtp == InitWith(MaxOtpCalls, {})

\* the effect of a completed call o of operation op on the state
Completes(op, args, outcome) ==
  /\ callsLeft > 0
  /\ \E o \in {outcome} :
     /\ callsLeft' = callsLeft - 1
     /\ useInMemoryStorage' = o.s.useInMemoryStorage
     /\ database' = o.s.database
     /\ memoryStore' = o.s.memoryStore
     /\ userQuotas' = o.s.userQuotas
     /\ last' = [op |-> op, args |-> args, ret |-> o.ret, raised |-> o.raised,
                 dbCalls |-> o.dbCalls, threw |-> o.threw,
                 errBefore |-> dbErrorCaught]
     /\ dbErrorCaught' = (dbErrorCaught \/ o.threw)
     /\ quotaLog' = IF op = "incrementUserQuota"
                       THEN [quotaLog EXCEPT ![args.userId].count = @ + 1]
                     ELSE IF op = "resetUserQuota"
                       THEN [quotaLog EXCEPT ![args.userId].count = 0]
                     ELSE quotaLog
     /\ UNCHANGED <<db, sessions, accepted, chats, leaving, DATABASE_URL, startup, pending, wss>>

\* which database statement of a call throws (0: none); without a database
\* there is no statement to throw
Faults(n) == IF db THEN 0..n ELSE {0}

Tick ==
  /\ now < MaxTime
  /\ now' = now + 1
  /\ last' = NoCall
  /\ UNCHANGED <<db, useInMemoryStorage, database, memoryStore, userQuotas,
                 nextId, callsLeft, dbErrorCaught, otpLog, sessions, accepted,
                 chats, leaving, quotaLog, DATABASE_URL, startup, pending, wss>>

\* ------------------------------------------------------------ OTP calls
StoreOtp ==
  \E p \in OtpPairs, otp \in OtpValues, f \in Faults(2) :
    /\ Completes("storeOtp", [identifier |-> p[1], otp |-> otp, type |-> p[2]],
                 storeOtp(Store, p[1], otp, p[2], now, f))
    /\ otpLog' = [otpLog EXCEPT ![p] =
                    [cur |-> otp,
                     prev |-> IF @.cur = otp THEN @.prev ELSE @.cur,
                     issuedAt |-> now, consumed |-> FALSE]]
    /\ UNCHANGED <<now, nextId>>

VerifyOtp ==
  \E p \in OtpPairs, otp \in OtpValues, f \in Faults(2) :
    /\ Completes("verifyOtp", [identifier |-> p[1], otp |-> otp, type |-> p[2]],
                 verifyOtp(Store, p[1], otp, p[2], now, f))
    /\ UNCHANGED <<now, nextId, otpLog>>

DeleteOtp ==
  \E p \in OtpPairs, f \in Faults(1) :
    /\ Completes("deleteOtp", [identifier |-> p[1], type |-> p[2]],
                 deleteOtp(Store, p[1], p[2], f))
    /\ otpLog' = [otpLog EXCEPT ![p].consumed = TRUE]
    /\ UNCHANGED <<now, nextId>>

NextOtp == StoreOtp \/ VerifyOtp \/ DeleteOtp \/ Tick

SpecOtp == InitOtp /\ [][NextOtp]_vars

\* ----------------------------------------------------------- User calls
Ids == 1..MaxIds
UserInputs == [username : Usernames, email : Emails, phone : Phones,
               password : Passwords]
UserInfoUpdates == {[email |-> e] : e \in Emails} \cup {[phone |-> ph] : ph \in Phones}
                   \cup {[username |-> n] : n \in Usernames}

\* randomUUID() / gen_random_uuid(): a fresh identifier
FreshId == nextId + 1
TakesId == nextId < MaxIds /\ nextId' = nextId + 1

Reads == UNCHANGED <<now, nextId, otpLog>>

CreateUser ==
  \E user \in UserInputs, f \in Faults(1) :
    /\ TakesId
    /\ Completes("createUser", [user |-> user], createUser(Store, user, FreshId, f))
    /\ UNCHANGED <<now, otpLog>>

GetUserByUsername ==
  \E n \in Usernames, f \in Faults(1) :
    Completes("getUserByUsername", [username |-> n], getUserByUsername(Store, n, f)) /\ Reads

GetUserByEmail ==
  \E e \in Emails, f \in Faults(1) :
    Completes("getUserByEmail", [email |-> e], getUserByEmail(Store, e, f)) /\ Reads

GetUserByPhone ==
  \E ph \in Phones, f \in Faults(1) :
    Completes("getUserByPhone", [phone |-> ph], getUserByPhone(Store, ph, f)) /\ Reads

GetUserById ==
  \E id \in Ids, f \in Faults(1) :
    Completes("getUserById", [id |-> id], getUserById(Store, id, f)) /\ Reads

GetOriginalPassword ==
  \E id \in Ids :
    Completes("getOriginalPassword", [id |-> id], getOriginalPassword(Store, id)) /\ Reads

UpdatePassword ==
  \E id \in Ids, pw \in Passwords, f \in Faults(1) :
    Completes("updatePassword", [id |-> id, password |-> pw],
              updatePassword(Store, id, pw, f)) /\ Reads

UpdateUserInfo ==
  \E id \in Ids, upd \in UserInfoUpdates, f \in Faults(1) :
    Completes("updateUserInfo", [id |-> id, updates |-> upd],
              updateUserInfo(Store, id, upd, f)) /\ Reads

UpdatePasswordByEmail ==
  \E e \in Emails, pw \in Passwords, f \in Faults(2) :
    Completes("updatePasswordByEmail", [email |-> e, password |-> pw],
              updatePasswordByEmail(Store, e, pw, f)) /\ Reads

DeleteUser ==
  \E id \in Ids, f \in Faults(5) :
    Completes("deleteUser", [id |-> id], deleteUser(Store, id, f)) /\ Reads

\* --------------------------------------------------------- entity calls
JobInputs == [userId : Owners, title : Titles]
TaskInputs == [userId : Owners, url : Titles]
NoteInputs == [userId : Owners, title : Titles]
FileInputs == [userId : Owners, name : Titles]
FolderInputs == [userId : Owners, name : Titles]
JobUpdates == {[title |-> x] : x \in Titles} \cup {[userId |-> u] : u \in Owners}
TaskUpdates == {[url |-> x] : x \in Titles}
NoteUpdates == {[title |-> x] : x \in Titles}
FileUpdates == {[name |-> x] : x \in Titles}
FolderUpdates == {[name |-> x] : x \in Titles}

GetAllJobs ==
  \E u \in Owners, f \in Faults(1) :
    Completes("getAllJobs", [userId |-> u], getAllJobs(Store, u, f)) /\ Reads
CreateJob ==
  \E job \in JobInputs, f \in Faults(1) :
    /\ TakesId
    /\ Completes("createJob", [job |-> job], createJob(Store, job, FreshId, now, f))
    /\ UNCHANGED <<now, otpLog>>
UpdateJob ==
  \E id \in Ids, upd \in JobUpdates, f \in Faults(1) :
    Completes("updateJob", [id |-> id, update |-> upd],
              updateJob(Store, id, upd, now, f)) /\ Reads
DeleteJob ==
  \E id \in Ids, f \in Faults(1) :
    Completes("deleteJob", [id |-> id], deleteJob(Store, id, f)) /\ Reads

GetAllTasks ==
  \E u \in Owners, f \in Faults(1) :
    Completes("getAllTasks", [userId |-> u], getAllTasks(Store, u, f)) /\ Reads
GetTasksSince ==
  \E u \in Owners, since \in 0..MaxTime, f \in Faults(1) :
    Completes("getTasksSince", [userId |-> u, since |-> since],
              getTasksSince(Store, u, since, f)) /\ Reads
CreateTask ==
  \E task \in TaskInputs, f \in Faults(1) :
    /\ TakesId
    /\ Completes("createTask", [task |-> task], createTask(Store, task, FreshId, now, f))
    /\ UNCHANGED <<now, otpLog>>
UpdateTask ==
  \E id \in Ids, upd \in TaskUpdates, f \in Faults(1) :
    Completes("updateTask", [id |-> id, update |-> upd],
              updateTask(Store, id, upd, now, f)) /\ Reads
DeleteTask ==
  \E id \in Ids, f \in Faults(1) :
    Completes("deleteTask", [id |-> id], deleteTask(Store, id, f)) /\ Reads

GetAllNotes ==
  \E u \in Owners, f \in Faults(1) :
    Completes("getAllNotes", [userId |-> u], getAllNotes(Store, u, f)) /\ Reads
CreateNote ==
  \E note \in NoteInputs, f \in Faults(1) :
    /\ TakesId
    /\ Completes("createNote", [note |-> note], createNote(Store, note, FreshId, now, f))
    /\ UNCHANGED <<now, otpLog>>
UpdateNote ==
  \E id \in Ids, upd \in NoteUpdates, f \in Faults(1) :
    Completes("updateNote", [id |-> id, update |-> upd],
              updateNote(Store, id, upd, now, f)) /\ Reads
DeleteNote ==
  \E id \in Ids, f \in Faults(1) :
    Completes("deleteNote", [id |-> id], deleteNote(Store, id, f)) /\ Reads

GetAllFiles ==
  \E u \in Owners, f \in Faults(1) :
    Completes("getAllFiles", [userId |-> u], getAllFiles(Store, u, f)) /\ Reads
GetFileById ==
  \E id \in Ids, f \in Faults(1) :
    Completes("getFileById", [id |-> id], getFileById(Store, id, f)) /\ Reads
CreateFile ==
  \E file \in FileInputs, f \in Faults(1) :
    /\ TakesId
    /\ Completes("createFile", [file |-> file], createFile(Store, file, FreshId, now, f))
    /\ UNCHANGED <<now, otpLog>>
UpdateFile ==
  \E id \in Ids, upd \in FileUpdates, f \in Faults(1) :
    Completes("updateFile", [id |-> id, update |-> upd],
              updateFile(Store, id, upd, now, f)) /\ Reads
DeleteFile ==
  \E id \in Ids, f \in Faults(1) :
    Completes("deleteFile", [id |-> id], deleteFile(Store, id, now, f)) /\ Reads

GetAllFolders ==
  \E u \in Owners, f \in Faults(1) :
    Completes("getAllFolders", [userId |-> u], getAllFolders(Store, u, f)) /\ Reads
GetFolderById ==
  \E id \in Ids, f \in Faults(1) :
    Completes("getFolderById", [id |-> id], getFolderById(Store, id, f)) /\ Reads
CreateFolder ==
  \E folder \in FolderInputs, f \in Faults(1) :
    /\ TakesId
    /\ Completes("createFolder", [folder |-> folder],
                 createFolder(Store, folder, FreshId, now, f))
    /\ UNCHANGED <<now, otpLog>>
UpdateFolder ==
  \E id \in Ids, upd \in FolderUpdates, f \in Faults(1) :
    Completes("updateFolder", [id |-> id, update |-> upd],
              updateFolder(Store, id, upd, now, f)) /\ Reads
DeleteFolder ==
  \E id \in Ids, f \in Faults(1) :
    Completes("deleteFolder", [id |-> id], deleteFolder(Store, id, f)) /\ Reads

GetUserQuota ==
  \E u \in Owners : Completes("getUserQuota", [userId |-> u], getUserQuota(Store, u)) /\ Reads
IncrementUserQuota ==
  \E u \in Owners :
    Completes("incrementUserQuota", [userId |-> u], incrementUserQuota(Store, u)) /\ Reads
ResetUserQuota ==
  \E u \in Owners :
    Completes("resetUserQuota", [userId |-> u], resetUserQuota(Store, u)) /\ Reads

UserCalls ==
  \/ CreateUser \/ GetUserByUsername \/ GetUserByEmail \/ GetUserByPhone
  \/ GetUserById \/ GetOriginalPassword \/ UpdatePassword \/ UpdateUserInfo
  \/ UpdatePasswordByEmail \/ DeleteUser
OtpCalls == StoreOtp \/ VerifyOtp \/ DeleteOtp
JobCalls == GetAllJobs \/ CreateJob \/ UpdateJob \/ DeleteJob
TaskCalls == GetAllTasks \/ GetTasksSince \/ CreateTask \/ UpdateTask \/ DeleteTask
NoteCalls == GetAllNotes \/ CreateNote \/ UpdateNote \/ DeleteNote
FileCalls == GetAllFiles \/ GetFileById \/ CreateFile \/ UpdateFile \/ DeleteFile
FolderCalls ==
  GetAllFolders \/ GetFolderById \/ CreateFolder \/ UpdateFolder \/ DeleteFolder
QuotaCalls == GetUserQuota \/ IncrementUserQuota \/ ResetUserQuota

\* every operation of the IStorage interface, called in any order
Next ==
  \/ UserCalls \/ OtpCalls \/ JobCalls \/ TaskCalls \/ NoteCalls \/ FileCalls
  \/ FolderCalls \/ QuotaCalls \/ Tick

Spec == Init /\ [][Next]_vars

\* ================================================ account-recovery routes
\* hashPassword: the hex SHA-256 digest of the password (its first 8 digits)
HashPassword(password) == IF password = "pw1" THEN "c592df4a" ELSE "93915a0a"

\* the store operations a handler awaited, folded into what the request did
Respond(calls, status, did) ==
  [s |-> calls[Len(calls)].s, status |-> status,
   threw |-> \E i \in 1..Len(calls) : calls[i].threw,
   dbCalls |-> LET RECURSIVE Sum(_)
                   Sum(n) == IF n = 0 THEN 0 ELSE calls[n].dbCalls + Sum(n - 1)
               IN Sum(Len(calls)),
   verified |-> did.verified, issued |-> did.issued, consumed |-> did.consumed,
   userId |-> did.userId]

Did == [verified |-> FALSE, issued |-> FALSE, consumed |-> FALSE, userId |-> NoSession]

\* POST /api/auth/register
register(s, userData, id, fs) ==
  LET existingEmail == getUserByEmail(s, userData.email, fs[1])
      existingPhone == getUserByPhone(existingEmail.s, userData.phone, fs[2])
      created == createUser(existingPhone.s,
                            [userData EXCEPT !.password = HashPassword(@)], id, fs[3])
  IN IF existingEmail.ret # None THEN Respond(<<existingEmail>>, 400, Did)
     ELSE IF existingPhone.ret # None
       THEN Respond(<<existingEmail, existingPhone>>, 400, Did)
     ELSE Respond(<<existingEmail, existingPhone, created>>, 200,
                  [Did EXCEPT !.userId = created.ret.id])

\* POST /api/auth/forgot-password/send-otp
forgotPasswordSendOtp(s, email, otp, emailSent, t, fs) ==
  LET user == getUserByEmail(s, email, fs[1])
      stored == storeOtp(user.s, email, otp, "email", t, fs[2])
  IN IF user.ret = None THEN Respond(<<user>>, 404, Did)
     ELSE Respond(<<user, stored>>, IF emailSent THEN 200 ELSE 500,
                  [Did EXCEPT !.issued = TRUE])

\* POST /api/auth/forgot-password/verify-otp
forgotPasswordVerifyOtp(s, email, otp, t, fs) ==
  LET isValid == verifyOtp(s, email, otp, "email", t, fs[1])
  IN IF isValid.ret # TRUE THEN Respond(<<isValid>>, 400, Did)
     ELSE Respond(<<isValid>>, 200, [Did EXCEPT !.verified = TRUE])

\* POST /api/auth/forgot-password/reset
forgotPasswordReset(s, email, otp, password, t, fs) ==
  LET isValid == verifyOtp(s, email, otp, "email", t, fs[1])
      user == getUserByEmail(isValid.s, email, fs[2])
      updated == updatePasswordByEmail(user.s, email, HashPassword(password), fs[3])
      deleted == deleteOtp(updated.s, email, "email", fs[4])
  IN IF isValid.ret # TRUE THEN Respond(<<isValid>>, 400, Did)
     ELSE IF user.ret = None
       THEN Respond(<<isValid, user>>, 404, [Did EXCEPT !.verified = TRUE])
     ELSE Respond(<<isValid, user, updated, deleted>>, 200,
                  [Did EXCEPT !.verified = TRUE, !.consumed = TRUE])

\* POST /api/auth/mobile-login/send-otp
mobileLoginSendOtp(s, phone, otp, emailSent, t, fs) ==
  LET user == getUserByPhone(s, phone, fs[1])
      stored == storeOtp(user.s, phone, otp, "phone", t, fs[2])
  IN IF user.ret = None THEN Respond(<<user>>, 404, Did)
     ELSE Respond(<<user, stored>>, IF emailSent THEN 200 ELSE 500,
                  [Did EXCEPT !.issued = TRUE])

\* POST /api/auth/mobile-login/verify-otp; saved is whether session.save
\* succeeded: when it fails the handler answers 500 before deleteOtp
mobileLoginVerifyOtp(s, phone, otp, saved, t, fs) ==
  LET isValid == verifyOtp(s, phone, otp, "phone", t, fs[1])
      user == getUserByPhone(isValid.s, phone, fs[2])
      deleted == deleteOtp(user.s, phone, "phone", fs[3])
      found == CHOOSE u \in user.ret : TRUE
  IN IF isValid.ret # TRUE THEN Respond(<<isValid>>, 400, Did)
     ELSE IF user.ret = None
       THEN Respond(<<isValid, user>>, 404, [Did EXCEPT !.verified = TRUE])
     ELSE IF ~saved
       THEN Respond(<<isValid, user>>, 500, [Did EXCEPT !.verified = TRUE])
     ELSE Respond(<<isValid, user, deleted>>, 200,
                  [Did EXCEPT !.verified = TRUE, !.consumed = TRUE,
                              !.userId = found.id])

\* the same handler without its isValid test
resetPasswordUnchecked(s, email, otp, password, t, fs) ==
  LET isValid == verifyOtp(s, email, otp, "email", t, fs[1])
      user == getUserByEmail(isValid.s, email, fs[2])
      updated == updatePasswordByEmail(user.s, email, HashPassword(password), fs[3])
      deleted == deleteOtp(updated.s, email, "email", fs[4])
  IN IF user.ret = None
       THEN Respond(<<isValid, user>>, 404, [Did EXCEPT !.verified = (isValid.ret = TRUE)])
     ELSE Respond(<<isValid, user, updated, deleted>>, 200,
                  [Did EXCEPT !.verified = (isValid.ret = TRUE), !.consumed = TRUE])

\* POST /api/auth/reset-password
resetPassword(s, email, otp, password, t, fs) ==
  LET isValid == verifyOtp(s, email, otp, "email", t, fs[1])
      user == getUserByEmail(isValid.s, email, fs[2])
      updated == updatePasswordByEmail(user.s, email, HashPassword(password), fs[3])
      deleted == deleteOtp(updated.s, email, "email", fs[4])
  IN IF isValid.ret # TRUE THEN Respond(<<isValid>>, 400, Did)
     ELSE IF user.ret = None
       THEN Respond(<<isValid, user>>, 404, [Did EXCEPT !.verified = TRUE])
     ELSE Respond(<<isValid, user, updated, deleted>>, 200,
                  [Did EXCEPT !.verified = TRUE, !.consumed = TRUE])

\* the effect of a served request r of a route on the state; args names the
\* identifier, channel and code the request presented
Serves(route, args, response, client) ==
  LET p == <<args.identifier, args.type>>
      code == <<args.identifier, args.type, args.otp>>
  IN /\ callsLeft > 0
     /\ \E r \in {response} :
        /\ callsLeft' = callsLeft - 1
        /\ useInMemoryStorage' = r.s.useInMemoryStorage
        /\ database' = r.s.database
        /\ memoryStore' = r.s.memoryStore
        /\ userQuotas' = r.s.userQuotas
        /\ sessions' = IF r.userId = NoSession THEN sessions
                       ELSE [sessions EXCEPT ![client] = r.userId]
        /\ last' = [op |-> route, args |-> args, ret |-> r.status, raised |-> FALSE,
                    dbCalls |-> r.dbCalls, threw |-> r.threw,
                    errBefore |-> dbErrorCaught, verified |-> r.verified,
                    replay |-> code \in accepted,
                    spent |-> code \in accepted /\ otpLog[p].consumed,
                    changed |-> r.s.database.users # database.users
                                \/ r.s.memoryStore.users # memoryStore.users]
        /\ dbErrorCaught' = (dbErrorCaught \/ r.threw)
        /\ otpLog' = IF r.issued
                       THEN [otpLog EXCEPT ![p] =
                               [cur |-> args.otp,
                                prev |-> IF @.cur = args.otp THEN @.prev ELSE @.cur,
                                issuedAt |-> now, consumed |-> FALSE]]
                     ELSE IF r.consumed THEN [otpLog EXCEPT ![p].consumed = TRUE]
                     ELSE otpLog
        /\ accepted' = IF r.issued
                         THEN {x \in accepted : <<x[1], x[2]>> # p}
                       ELSE IF r.verified THEN accepted \cup {code}
                       ELSE accepted
        /\ UNCHANGED <<db, now, chats, leaving, quotaLog, DATABASE_URL, startup, pending, wss>>

\* which database statement of a request throws: per store operation the
\* handler awaits, the statement of it that throws (0: none), at most one
\* statement per request
OneFault(ns) ==
  LET None0 == [i \in 1..Len(ns) |-> 0]
  IN {None0} \cup {[None0 EXCEPT ![k[1]] = k[2]] :
                    k \in {x \in (1..Len(ns)) \X (1..2) : x[2] \in Faults(ns[x[1]])}}

EmailOtp(email, otp) == [identifier |-> email, type |-> "email", otp |-> otp]
PhoneOtp(phone, otp) == [identifier |-> phone, type |-> "phone", otp |-> otp]

Register ==
  \E client \in Clients, userData \in UserInputs, fs \in OneFault(<<1, 1, 1>>) :
    /\ TakesId
    /\ Serves("register",
              [identifier |-> userData.email, type |-> "email", otp |-> NoOtp],
              register(Store, userData, FreshId, fs), client)

ForgotPasswordSendOtp ==
  \E email \in Emails, otp \in OtpValues, emailSent \in BOOLEAN,
     fs \in OneFault(<<1, 2>>) :
    /\ Serves("forgot-password/send-otp", EmailOtp(email, otp),
              forgotPasswordSendOtp(Store, email, otp, emailSent, now, fs), "c1")
    /\ UNCHANGED nextId

ForgotPasswordVerifyOtp ==
  \E email \in Emails, otp \in OtpValues, fs \in OneFault(<<2>>) :
    /\ Serves("forgot-password/verify-otp", EmailOtp(email, otp),
              forgotPasswordVerifyOtp(Store, email, otp, now, fs), "c1")
    /\ UNCHANGED nextId

ResetFaults == OneFault(<<2, 1, 2, 1>>)

ForgotPasswordReset ==
  \E email \in Emails, otp \in OtpValues, password \in Passwords, fs \in ResetFaults :
    /\ Serves("forgot-password/reset", EmailOtp(email, otp),
              forgotPasswordReset(Store, email, otp, password, now, fs), "c1")
    /\ UNCHANGED nextId

MobileLoginSendOtp ==
  \E phone \in Phones, otp \in OtpValues, emailSent \in BOOLEAN,
     fs \in OneFault(<<1, 2>>) :
    /\ Serves("mobile-login/send-otp", PhoneOtp(phone, otp),
              mobileLoginSendOtp(Store, phone, otp, emailSent, now, fs), "c1")
    /\ UNCHANGED nextId

MobileLoginVerifyOtp ==
  \E client \in Clients, phone \in Phones, otp \in OtpValues, saved \in BOOLEAN,
     fs \in OneFault(<<2, 1, 1>>) :
    /\ Serves("mobile-login/verify-otp", PhoneOtp(phone, otp),
              mobileLoginVerifyOtp(Store, phone, otp, saved, now, fs), client)
    /\ UNCHANGED nextId

ResetPassword ==
  \E email \in Emails, otp \in OtpValues, password \in Passwords, fs \in ResetFaults :
    /\ Serves("reset-password", EmailOtp(email, otp),
              resetPassword(Store, email, otp, password, now, fs), "c1")
    /\ UNCHANGED nextId

\* The database outlives the process: at construction it may already hold
\* an account registered in an earlier run.
Account == [id |-> 1, username |-> "ann", email |-> "a@x", phone |-> "555",
            password |-> HashPassword("pw1")]

InitAuth == InitWith(MaxRequests, {[EmptyTables EXCEPT !.users = {Account}]})

NextAuth ==
  \/ Register \/ ForgotPasswordSendOtp \/ ForgotPasswordVerifyOtp
  \/ ForgotPasswordReset \/ MobileLoginSendOtp \/ MobileLoginVerifyOtp
  \/ ResetPassword \/ Tick

SpecAuth == InitAuth /\ [][NextAuth]_vars

\* ======================================================== chat and logout
\* POST /api/chat: const dailyLimit = 50
dailyLimit == 50

\* POST /api/auth/login; saved is whether req.session.save succeeded
login(s, email, password, saved, fs) ==
  LET user == getUserByEmail(s, email, fs[1])
      found == CHOOSE u \in user.ret : TRUE
  IN IF user.ret = None THEN Respond(<<user>>, 401, Did)
     ELSE IF HashPassword(password) # found.password THEN Respond(<<user>>, 401, Did)
     ELSE IF ~saved THEN Respond(<<user>>, 500, Did)
     ELSE Respond(<<user>>, 200, [Did EXCEPT !.userId = found.id])

\* the callback of req.session.destroy with the quota left as it is
logoutKeepsQuota(s, userId, err) ==
  [s |-> s, status |-> IF err THEN 500 ELSE 200]

\* POST /api/auth/logout, the callback of req.session.destroy: userId is
\* the req.session.userId read before destroy was called
logout(s, userId, err) ==
  IF err THEN [s |-> s, status |-> 500]
  ELSE IF userId # NoSession
    THEN [s |-> resetUserQuota(s, userId).s, status |-> 200]
  ELSE [s |-> s, status |-> 200]

\* POST /api/chat up to the fetch of the model's answer (status 0: the
\* request is awaiting it)
chatAsks(s, userId, geminiApiKey) ==
  LET userQuota == getUserQuota(s, userId)
  IN IF userId = NoSession THEN [s |-> s, status |-> 401]
     ELSE IF userQuota.ret >= dailyLimit THEN [s |-> userQuota.s, status |-> 429]
     ELSE IF ~geminiApiKey THEN [s |-> userQuota.s, status |-> 500]
     ELSE [s |-> userQuota.s, status |-> 0]

\* POST /api/chat from the model's answer on; ok is response.ok
chatAnswers(s, userId, ok) ==
  LET incremented == incrementUserQuota(s, userId)
      newQuota == getUserQuota(incremented.s, userId)
  IN IF ~ok THEN [s |-> s, status |-> 500, quotaUsed |-> 0]
     ELSE [s |-> newQuota.s, status |-> 200, quotaUsed |-> newQuota.ret]

\* the effect of a step r of the chat or logout handler on the state
ChatServes(route, userId, r, used) ==
  /\ userQuotas' = r.s.userQuotas
  /\ last' = [op |-> route, args |-> [userId |-> userId], ret |-> r.status,
              raised |-> FALSE, dbCalls |-> 0, threw |-> FALSE,
              errBefore |-> dbErrorCaught, used |-> used]
  /\ quotaLog' =
       IF userId = NoSession THEN quotaLog
       ELSE IF route = "logout" /\ r.status = 200
         THEN [quotaLog EXCEPT ![userId] = [count |-> 0, loggedOut |-> TRUE]]
       ELSE IF route = "chat" /\ r.status = 200
         THEN [quotaLog EXCEPT ![userId] = [count |-> @.count + 1, loggedOut |-> FALSE]]
       ELSE quotaLog
  /\ UNCHANGED <<db, useInMemoryStorage, database, memoryStore, now, nextId,
                 dbErrorCaught, otpLog, accepted, DATABASE_URL, startup, pending, wss>>

Login ==
  \E client \in Clients, email \in Emails, password \in Passwords, saved \in BOOLEAN,
     fs \in OneFault(<<1>>) :
    /\ Serves("login", EmailOtp(email, NoOtp),
              login(Store, email, password, saved, fs), client)
    /\ UNCHANGED nextId

LogoutStart ==
  \E client \in Clients :
    /\ callsLeft > 0
    /\ leaving[client] = NotLeaving
    /\ leaving' = [leaving EXCEPT ![client] = sessions[client]]
    /\ callsLeft' = callsLeft - 1
    /\ UNCHANGED <<db, useInMemoryStorage, database, memoryStore, userQuotas, now,
                   nextId, last, dbErrorCaught, otpLog, sessions, accepted, chats,
                   quotaLog, DATABASE_URL, startup, pending, wss>>

LogoutDone ==
  \E client \in Clients, err \in BOOLEAN :
    /\ leaving[client] # NotLeaving
    /\ ChatServes("logout", leaving[client], logout(Store, leaving[client], err),
                  IF leaving[client] = NoSession THEN 0
                  ELSE getUserQuota(Store, leaving[client]).ret)
    /\ leaving' = [leaving EXCEPT ![client] = NotLeaving]
    /\ sessions' = IF err THEN sessions ELSE [sessions EXCEPT ![client] = NoSession]
    /\ UNCHANGED <<callsLeft, chats>>

ChatStart ==
  \E client \in Clients, geminiApiKey \in BOOLEAN :
    LET userId == sessions[client]
        r == chatAsks(Store, userId, geminiApiKey)
    IN /\ callsLeft > 0
       /\ userId # NoSession => chats[userId] < MaxInFlight
       /\ callsLeft' = callsLeft - 1
       /\ ChatServes("chat", userId, r, 0)
       /\ chats' = IF r.status = 0 THEN [chats EXCEPT ![userId] = @ + 1] ELSE chats
       /\ UNCHANGED <<sessions, leaving>>

ChatFinish ==
  \E userId \in DOMAIN chats, ok \in BOOLEAN :
    /\ chats[userId] > 0
    /\ ChatServes("chat", userId, chatAnswers(Store, userId, ok),
                  getUserQuota(Store, userId).ret)
    /\ chats' = [chats EXCEPT ![userId] = @ - 1]
    /\ UNCHANGED <<callsLeft, sessions, leaving>>

InitChat == InitWith(MaxChatRequests, {})

NextChat == Register \/ Login \/ LogoutStart \/ LogoutDone \/ ChatStart \/ ChatFinish

SpecChat == InitChat /\ [][NextChat]_vars

\* ============================================================ the lists
InitLists == InitWith(MaxListCalls, {})

NextLists ==
  \/ CreateJob \/ CreateTask \/ CreateNote \/ CreateFile \/ CreateFolder
  \/ DeleteFile
  \/ GetAllJobs \/ GetAllTasks \/ GetAllNotes \/ GetAllFiles \/ GetAllFolders
  \/ Tick

SpecLists == InitLists /\ [][NextLists]_vars

\* =========================================================== task routes
\* a day, in periods of five minutes
PeriodsPerDay == 24 * 12
\* fiveDaysAgo.setDate(fiveDaysAgo.getDate() - 5)
FiveDays == 5 * PeriodsPerDay

\* A url is a sequence of characters: a lower-case one, an upper-case one
\* and the slash.  url.toLowerCase().replace(/\/$/, '')
ToLowerCase(url) == [i \in 1..Len(url) |-> IF url[i] = "A" THEN "a" ELSE url[i]]
NormalizeUrl(url) ==
  IF url # <<>> /\ url[Len(url)] = "/" THEN DropLast(ToLowerCase(url))
  ELSE ToLowerCase(url)

TaskUrls == {<<>>, <<"a">>, <<"A">>, <<"a", "/">>}

\* the store operations a handler awaited, folded into its answer; sent is
\* the record in the response body, if any
Reply(calls, status, sent) ==
  [s |-> calls[Len(calls)].s, status |-> status,
   threw |-> \E i \in 1..Len(calls) : calls[i].threw,
   dbCalls |-> LET RECURSIVE Sum(_)
                   Sum(n) == IF n = 0 THEN 0 ELSE calls[n].dbCalls + Sum(n - 1)
               IN Sum(Len(calls)),
   sent |-> sent]

\* POST /api/tasks of a session with userId (NoSession: none)
postTask(s, userId, body, id, t, fs) ==
  LET existingTasks == getTasksSince(s, userId, t - FiveDays, fs[1])
      normalizedUrl == NormalizeUrl(body.url)
      isDuplicate == \E i \in 1..Len(existingTasks.ret) :
                       /\ existingTasks.ret[i].url # <<>>
                       /\ NormalizeUrl(existingTasks.ret[i].url) = normalizedUrl
      checked == IF body.url # <<>> THEN existingTasks ELSE Return(Begin(s), <<>>)
      task == createTask(checked.s, [userId |-> userId, url |-> body.url], id, t, fs[2])
  IN IF userId = NoSession THEN Reply(<<Return(Begin(s), Void)>>, 401, None)
     ELSE IF body.url # <<>> /\ isDuplicate THEN Reply(<<checked>>, 400, None)
     ELSE Reply(<<checked, task>>, 200, Some(task.ret))

\* the effect of a served request r of an entity route on the state
Handles(route, userId, body, r) ==
  /\ callsLeft > 0
  /\ callsLeft' = callsLeft - 1
  /\ useInMemoryStorage' = r.s.useInMemoryStorage
  /\ database' = r.s.database
  /\ memoryStore' = r.s.memoryStore
  /\ userQuotas' = r.s.userQuotas
  /\ last' = [op |-> route, args |-> [userId |-> userId, body |-> body],
              ret |-> r.status, raised |-> FALSE, dbCalls |-> r.dbCalls,
              threw |-> r.threw, errBefore |-> dbErrorCaught, sent |-> r.sent]
  /\ dbErrorCaught' = (dbErrorCaught \/ r.threw)
  /\ nextId' = IF \E rec \in r.sent : rec.id = FreshId THEN FreshId ELSE nextId
  /\ UNCHANGED <<db, now, otpLog, sessions, accepted, chats, leaving, quotaLog,
                 DATABASE_URL, startup>>

PostTask ==
  \E userId \in {NoSession} \cup Owners, url \in TaskUrls, fs \in OneFault(<<1, 1>>) :
    /\ Handles("POST /api/tasks", userId, [url |-> url],
               postTask(Store, userId, [url |-> url], FreshId, now, fs))
    /\ UNCHANGED <<pending, wss>>

Days ==
  \E d \in 1..MaxDays :
    /\ now + d * PeriodsPerDay <= MaxDays * PeriodsPerDay
    /\ now' = now + d * PeriodsPerDay
    /\ last' = NoCall
    /\ UNCHANGED <<db, useInMemoryStorage, database, memoryStore, userQuotas,
                   nextId, callsLeft, dbErrorCaught, otpLog, sessions, accepted,
                   chats, leaving, quotaLog, DATABASE_URL, startup, pending, wss>>

InitTasks == InitWith(MaxTaskRequests, {})

NextTasks == PostTask \/ Days

SpecTasks == InitTasks /\ [][NextTasks]_vars

\* ============================================================ job routes
\* POST /api/jobs of a session with userId (NoSession: none)
postJob(s, userId, body, id, t, fs) ==
  LET job == createJob(s, [userId |-> userId, title |-> body.title], id, t, fs[1])
  IN IF userId = NoSession THEN Reply(<<Return(Begin(s), Void)>>, 401, None)
     ELSE Reply(<<job>>, 200, Some(job.ret))

\* PUT /api/jobs/:id: req.body goes to updateJob as it is, whatever the
\* session
putJob(s, id, body, t, fs) ==
  LET job == updateJob(s, id, body, t, fs[1])
  IN IF job.ret = None THEN Reply(<<job>>, 404, None)
     ELSE Reply(<<job>>, 200, job.ret)

\* the id of a user who sends no request
OtherUser == MaxIds + 1

PostJob ==
  \E userId \in {NoSession} \cup Owners, title \in Titles, fs \in OneFault(<<1>>) :
    /\ Handles("POST /api/jobs", userId, [title |-> title],
               postJob(Store, userId, [title |-> title], FreshId, now, fs))
    /\ UNCHANGED <<pending, wss>>

PutJob ==
  \E userId \in {NoSession} \cup Owners, id \in Ids,
     body \in JobUpdates \cup {[userId |-> OtherUser]}, fs \in OneFault(<<1>>) :
    /\ Handles("PUT /api/jobs/:id", userId, [id |-> id, update |-> body],
               putJob(Store, id, body, now, fs))
    /\ UNCHANGED <<pending, wss>>

InitJobs == InitWith(MaxJobRequests, {})

NextJobs == PostJob \/ PutJob \/ Tick

SpecJobs == InitJobs /\ [][NextJobs]_vars

\* ================================================== the connection string
\* autoFixDatabaseUrl() is called, and its result becomes DATABASE_URL
AutoFixDatabaseUrl ==
  /\ callsLeft > 0
  /\ callsLeft' = callsLeft - 1
  /\ last' = [op |-> "autoFixDatabaseUrl", args |-> [env |-> DATABASE_URL],
              ret |-> autoFixDatabaseUrl(DATABASE_URL), raised |-> FALSE,
              dbCalls |-> 0, threw |-> FALSE, errBefore |-> dbErrorCaught]
  /\ DATABASE_URL' = Url(autoFixDatabaseUrl(DATABASE_URL))
  /\ UNCHANGED <<db, useInMemoryStorage, database, memoryStore, userQuotas, now,
                 nextId, dbErrorCaught, otpLog, sessions, accepted, chats, leaving,
                 quotaLog, pending, wss, startup>>

InitUrl == InitFrom({NoUrl} \cup {Url(text) : text \in UrlStrings}, MaxFixes, {})

NextUrl == AutoFixDatabaseUrl

SpecUrl == InitUrl /\ [][NextUrl]_vars

\* ====================================================== the quota counter
InitQuota == InitWith(MaxQuotaCalls, {})

NextQuota == GetUserQuota \/ IncrementUserQuota \/ ResetUserQuota

SpecQuota == InitQuota /\ [][NextQuota]_vars

\* ========================================= accounts and their records
\* The routes create a job, task or note for req.session.userId, the id of a
\* registered user: the owner of a new record is a user some backend holds.
AccountOwners ==
  {u.id : u \in database.users \cup MapValues(memoryStore.users)} \cap Owners

TakesAccountId == nextId < MaxAccountIds /\ nextId' = nextId + 1

AccountCreateUser ==
  \E user \in {u \in UserInputs : u.password = "pw1"}, f \in Faults(1) :
    /\ TakesAccountId
    /\ Completes("createUser", [user |-> user], createUser(Store, user, FreshId, f))
    /\ UNCHANGED <<now, otpLog>>

AccountCreateJob ==
  \E u \in AccountOwners, f \in Faults(1) :
    /\ TakesAccountId
    /\ Completes("createJob", [job |-> [userId |-> u, title |-> "t1"]],
                 createJob(Store, [userId |-> u, title |-> "t1"], FreshId, now, f))
    /\ UNCHANGED <<now, otpLog>>

AccountCreateTask ==
  \E u \in AccountOwners, f \in Faults(1) :
    /\ TakesAccountId
    /\ Completes("createTask", [task |-> [userId |-> u, url |-> "t1"]],
                 createTask(Store, [userId |-> u, url |-> "t1"], FreshId, now, f))
    /\ UNCHANGED <<now, otpLog>>

AccountCreateNote ==
  \E u \in AccountOwners, f \in Faults(1) :
    /\ TakesAccountId
    /\ Completes("createNote", [note |-> [userId |-> u, title |-> "t1"]],
                 createNote(Store, [userId |-> u, title |-> "t1"], FreshId, now, f))
    /\ UNCHANGED <<now, otpLog>>

AccountDeleteUser ==
  \E id \in 1..MaxAccountIds, f \in Faults(5) :
    Completes("deleteUser", [id |-> id], deleteUser(Store, id, f)) /\ Reads

InitAccount == InitWith(MaxAccountCalls, {})

NextAccount ==
  \/ AccountCreateUser \/ AccountCreateJob \/ AccountCreateTask
  \/ AccountCreateNote \/ AccountDeleteUser

SpecAccount == InitAccount /\ [][NextAccount]_vars

\* ================================================================= claims
StoreNext == [db |-> db', useInMemoryStorage |-> useInMemoryStorage',
              database |-> database', memoryStore |-> memoryStore',
              userQuotas |-> userQuotas']

LastPair == <<last.args.identifier, last.args.type>>

\* C1: once an operation has caught a database error, no later store
\* operation (storeOtp, verifyOtp and deleteOtp included) issues a database
\* statement.
C1_FailoverPermanent == last.errBefore => last.dbCalls = 0

\* C1: an OTP operation issues database statements after an earlier call
\* caught a database error
C1_OtpStillUsesDatabase ==
  /\ last.errBefore /\ last.dbCalls > 0
  /\ last.op \in {"storeOtp", "verifyOtp", "deleteOtp"}

\* C2: no store operation raises, whichever database statement of it throws.
C2_NeverRaises == ~last.raised

\* C2: a call in which a database statement threw and that returned normally;
\* and the nested case, verifyOtp's own deleteOtp statement throwing
C2_Witness ==
  /\ last.op = "verifyOtp" /\ last.dbCalls = 2 /\ last.threw
  /\ ~last.raised /\ last.ret = FALSE

\* the records of a table that a backend holds
Held(tbl) == database[tbl] \cup MapValues(memoryStore[tbl])

\* C3: after a database error has switched the store to the in-memory
\* backend, every record that was created and not deleted is still returned
\* by get-by-id and by the list of its owner.
C3_FailoverInvisible ==
  (db /\ useInMemoryStorage) =>
    /\ \A r \in Held("users") : getUserById(Store, r.id, 0).ret = Some(r)
    /\ \A r \in Held("files") : getFileById(Store, r.id, 0).ret = Some(r)
    /\ \A r \in Held("folders") : getFolderById(Store, r.id, 0).ret = Some(r)
    /\ \A r \in Held("jobs") : r \in Range(getAllJobs(Store, r.userId, 0).ret)
    /\ \A r \in Held("tasks") : r \in Range(getAllTasks(Store, r.userId, 0).ret)
    /\ \A r \in Held("notes") : r \in Range(getAllNotes(Store, r.userId, 0).ret)
    /\ \A r \in Held("folders") : r \in Range(getAllFolders(Store, r.userId, 0).ret)
    /\ \A r \in Held("files") :
         (~r.isTrashed) => r \in Range(getAllFiles(Store, r.userId, 0).ret)

\* C3: the store has failed over while a table of the database holds a record
C3_RecordLeftBehind ==
  /\ db /\ useInMemoryStorage
  /\ \E tbl \in {"users", "jobs", "tasks", "notes", "files", "folders"} :
       database[tbl] # {}

\* C4: after storeOtp(i, c1, t) and then storeOtp(i, c2, t) with c1 # c2,
\* verifyOtp(i, c1, t) returns false and only c2 verifies.
C4_SingleFlight ==
  (last.op = "verifyOtp" /\ otpLog[LastPair].prev # NoOtp) =>
    /\ (last.args.otp = otpLog[LastPair].prev) => (last.ret = FALSE)
    /\ (last.ret = TRUE) => (last.args.otp = otpLog[LastPair].cur)

\* C4: the code issued first for a pair has verified after the second was issued
C4_OlderCodeVerifies ==
  /\ last.op = "verifyOtp" /\ otpLog[LastPair].prev # NoOtp
  /\ last.args.otp = otpLog[LastPair].prev /\ last.ret = TRUE

\* C5: a code issued at time t and neither re-issued nor consumed since
\* verifies exactly while now <= t + 5 minutes; any other code, and any code
\* for a pair that was never issued one, is refused.
C5_ValidityWindow ==
  (last.op = "verifyOtp") =>
    LET lg == otpLog[LastPair]
    IN /\ (lg.cur = NoOtp) => (last.ret = FALSE)
       /\ (lg.cur # NoOtp /\ ~lg.consumed /\ last.args.otp # lg.cur) => (last.ret = FALSE)
       /\ (lg.cur # NoOtp /\ ~lg.consumed /\ last.args.otp = lg.cur) =>
            (last.ret = (now <= lg.issuedAt + OtpTtl))

\* C5: the pair's current code, unconsumed and inside its window, was refused
C5_ValidCodeRefused ==
  /\ last.op = "verifyOtp"
  /\ otpLog[LastPair].cur = last.args.otp /\ ~otpLog[LastPair].consumed
  /\ now <= otpLog[LastPair].issuedAt + OtpTtl
  /\ last.ret = FALSE

\* the records held for a pair, per backend
DbRecordsOf(tables, p) == DbOtpFor(tables, p[1], p[2])
MemRecordsOf(mem, p) ==
  IF MapHas(mem.otpCodes, OtpKey(p[1], p[2]))
    THEN {mem.otpCodes[OtpKey(p[1], p[2])]} ELSE {}

\* C6: verifyOtp called when the record held for the pair has expired
\* returns false and leaves no record for the pair in the backend that held
\* it, whatever code is supplied.
C6_ExpiredDeletedOnRead ==
  [][(last'.op = "verifyOtp" /\ callsLeft' # callsLeft) =>
       LET p == <<last'.args.identifier, last'.args.type>>
           held == DbRecordsOf(database, p) \cup MemRecordsOf(memoryStore, p)
       IN (held # {} /\ \A r \in held : now > r.expiresAt) =>
            /\ last'.ret = FALSE
            /\ (DbRecordsOf(database, p) # {}) => (DbRecordsOf(database', p) = {})
            /\ (MemRecordsOf(memoryStore, p) # {}) =>
                 (MemRecordsOf(memoryStore', p) = {})]_vars

\* C6: verifyOtp has returned and the database still holds an expired record
\* for the pair
C6_ExpiredRecordKept ==
  /\ last.op = "verifyOtp" /\ last.ret = FALSE
  /\ \E r \in DbRecordsOf(database, LastPair) : now > r.expiresAt

\* C7: after deleteOtp(i, t), verifyOtp(i, c, t) returns false for every
\* code c until the next storeOtp(i, _, t).
C7_ConsumeRemoves ==
  (last.op = "verifyOtp" /\ otpLog[LastPair].consumed) => (last.ret = FALSE)

\* C7: a code has verified after deleteOtp for its pair
C7_VerifiesAfterDelete ==
  /\ last.op = "verifyOtp" /\ otpLog[LastPair].consumed /\ last.ret = TRUE

\* C10: deleteFile on a file that getFileById returns leaves it stored and
\* trashed, out of its owner's list, and every other file as it was; on a
\* missing id it returns false and changes no file.
C10_SoftDelete ==
  [][(last'.op = "deleteFile" /\ callsLeft' # callsLeft) =>
       LET id == last'.args.id
           existing == getFileById(Store, id, 0).ret
           after == getFileById(StoreNext, id, 0).ret
       IN IF existing # None
            THEN /\ last'.ret = TRUE
                 /\ after # None
                 /\ \A r \in after : r.isTrashed /\ r.trashedAt # NullDate
                 /\ \A r \in after :
                      \A q \in Range(getAllFiles(StoreNext, r.userId, 0).ret) : q.id # id
                 /\ {r \in Held("files") : r.id # id}
                      = {r \in database'.files \cup MapValues(memoryStore'.files) :
                           r.id # id}
            ELSE /\ last'.ret = FALSE
                 /\ database'.files = database.files
                 /\ memoryStore'.files = memoryStore.files]_vars

\* C10: deleteFile has returned false for a file the database holds
C10_StoredFileNotTrashed ==
  /\ last.op = "deleteFile" /\ last.ret = FALSE
  /\ \E r \in database.files : r.id = last.args.id /\ ~r.isTrashed

\* the routes that take a code
VerifyingRoutes == {"forgot-password/verify-otp", "forgot-password/reset",
                    "reset-password", "mobile-login/verify-otp"}

\* C8: once a request that verified a code has completed, every later
\* request presenting that code for the same identifier and channel to
\* forgot-password/verify-otp, forgot-password/reset, reset-password or
\* mobile-login/verify-otp is answered 400.
C8_SingleUse ==
  (last.op \in VerifyingRoutes /\ last.replay) => (last.ret = 400)

\* C8: a reset or a mobile login has accepted a code that an earlier request
\* verified and consumed
C8_ConsumedCodeAccepted ==
  /\ last.op \in {"forgot-password/reset", "reset-password", "mobile-login/verify-otp"}
  /\ last.spent /\ last.ret = 200

\* C9: a reset route changes only the password of the user with the
\* request's email, and mobile login sets the session only to the user with
\* the request's phone, and each only in a request whose verifyOtp returned
\* true; a request whose verification failed is answered 400 and leaves the
\* users and the sessions as they were.
C9_OtpIsTheGate ==
  [][(last'.op \in VerifyingRoutes /\ callsLeft' # callsLeft) =>
       LET before == database.users \cup MapValues(memoryStore.users)
           after == database'.users \cup MapValues(memoryStore'.users)
       IN /\ (~last'.verified) =>
               /\ last'.ret = 400
               /\ database'.users = database.users
               /\ memoryStore'.users = memoryStore.users
               /\ sessions' = sessions
          /\ \A u \in after \ before :
               /\ last'.op \in {"forgot-password/reset", "reset-password"}
               /\ u.email = last'.args.identifier
               /\ \E v \in before : v.id = u.id /\ [v EXCEPT !.password = u.password] = u
          /\ \A c \in Clients :
               (sessions'[c] # sessions[c]) =>
                 /\ last'.op = "mobile-login/verify-otp"
                 /\ \E u \in before : u.id = sessions'[c] /\ u.phone = last'.args.identifier]_vars

\* C9: a reset-password request with a verified code has changed a password
C9_Witness ==
  /\ last.op = "reset-password" /\ last.verified /\ last.ret = 200 /\ last.changed

\* the users, and the jobs, tasks and notes, that deleteUser works on
AccountTables == {"users", "jobs", "tasks", "notes"}
OfUser(rows, tbl, u) == {r \in rows : IF tbl = "users" THEN r.id = u ELSE r.userId = u}

\* C11: after deleteUser(u) has returned true neither backend holds a user
\* with id u or a job, task or note with userId u, and the users, jobs, tasks
\* and notes of every other user are what they were.
C11_DeleteUserCascades ==
  [][(last'.op = "deleteUser" /\ callsLeft' # callsLeft /\ last'.ret = TRUE) =>
       \A tbl \in AccountTables :
         LET u == last'.args.id
             dbBefore == database[tbl]
             dbAfter == database'[tbl]
             memBefore == MapValues(memoryStore[tbl])
             memAfter == MapValues(memoryStore'[tbl])
         IN /\ OfUser(dbAfter, tbl, u) = {}
            /\ OfUser(memAfter, tbl, u) = {}
            /\ dbAfter = dbBefore \ OfUser(dbBefore, tbl, u)
            /\ memAfter = memBefore \ OfUser(memBefore, tbl, u)]_vars

\* C11: of two users and one record, all three created, only one user is
\* left after deleteUser returned true: the record went with its owner
C11_Witness ==
  /\ last.op = "deleteUser" /\ last.ret = TRUE /\ nextId = 3
  /\ Cardinality(Held("users")) = 1
  /\ Held("jobs") \cup Held("tasks") \cup Held("notes") = {}

\* C12: a deleteUser that returns false leaves the users, jobs, tasks and
\* notes of both backends as they were, also when a database statement of
\* the cascade throws.
C12_NotFoundNoEffect ==
  [][(last'.op = "deleteUser" /\ callsLeft' # callsLeft /\ last'.ret = FALSE) =>
       \A tbl \in AccountTables :
         /\ database'[tbl] = database[tbl]
         /\ memoryStore'[tbl] = memoryStore[tbl]]_vars

\* C12: deleteUser has returned false for a user the database holds, after
\* a delete of the cascade had run
C12_HalfDeleted ==
  /\ last.op = "deleteUser" /\ last.ret = FALSE /\ last.threw /\ last.dbCalls >= 3
  /\ \E u \in database.users : u.id = last.args.id

\* C13: getUserQuota(u) is the number of incrementUserQuota(u) calls since
\* the last resetUserQuota(u), 0 when there was none, whatever was called for
\* another user.
C13_QuotaCounts ==
  /\ \A u \in Owners : getUserQuota(Store, u).ret = quotaLog[u].count
  /\ (last.op = "getUserQuota") => (last.ret = quotaLog[last.args.userId].count)

\* C13: one user's count read as 2 after a reset and two increments, while
\* the other user's count is 1
C13_Witness ==
  /\ last.op = "getUserQuota" /\ last.ret = 2 /\ callsLeft = 0
  /\ \E u \in Owners : u # last.args.userId /\ quotaLog[u].count = 1

\* C14: from the success response of a logout of a session with userId u
\* until a chat request of u completes with 200, getUserQuota(u) is 0.
C14_LogoutResetsQuota ==
  \A u \in DOMAIN quotaLog : quotaLog[u].loggedOut => (getUserQuota(Store, u).ret = 0)

\* C14: a logout has answered success for a user whose count was not 0,
\* while a chat request of that user is still awaiting its answer
C14_Witness ==
  /\ last.op = "logout" /\ last.ret = 200 /\ last.args.userId # NoSession
  /\ last.used > 0
  /\ chats[last.args.userId] > 0
  /\ quotaLog[last.args.userId].loggedOut

\* C15: autoFixDatabaseUrl applied to its own output returns that output
\* unchanged, and an absent or empty DATABASE_URL gives the empty string.
C15_FixIsIdempotent ==
  (last.op = "autoFixDatabaseUrl") =>
    /\ autoFixDatabaseUrl(Url(last.ret)) = last.ret
    /\ (~last.args.env.set \/ last.args.env.text = <<>>) => (last.ret = <<>>)

\* C15: the result for a Neon string still ends with a separator
C15_SeparatorLeft ==
  /\ last.op = "autoFixDatabaseUrl"
  /\ Includes(last.ret, "neon.tech")
  /\ last.ret[Len(last.ret)] = "&"

\* the tasks of user u with the normalized url of url, created in the five
\* days before now
RecentSameUrl(u, url) ==
  {t \in Held("tasks") : /\ t.userId = u
                         /\ NormalizeUrl(t.url) = NormalizeUrl(url)
                         /\ t.createdAt >= now - FiveDays}

\* C16: a POST /api/tasks whose normalized url is that of a task of the same
\* user created within the last 5 days is answered 400 and creates no task;
\* when there is no such task (the tasks with that url are older or of
\* another user) the task is created.
C16_DuplicateWindow ==
  [][(last'.op = "POST /api/tasks" /\ callsLeft' # callsLeft
        /\ last'.args.userId # NoSession) =>
       LET u == last'.args.userId
           url == last'.args.body.url
       IN IF RecentSameUrl(u, url) # {}
            THEN last'.ret = 400 /\ Held("tasks")' = Held("tasks")
          ELSE /\ last'.ret = 200
               /\ \E t \in Held("tasks")' \ Held("tasks") :
                    /\ t.userId = u /\ t.url = url
                    /\ Held("tasks")' = Held("tasks") \cup {t}]_vars

\* C16: the store holds two tasks of one user with the same normalized,
\* non-empty url, created less than five days apart
C16_DuplicateCreated ==
  \E a, b \in Held("tasks") :
    /\ a.id # b.id /\ a.userId = b.userId /\ a.url # <<>>
    /\ NormalizeUrl(a.url) = NormalizeUrl(b.url)
    /\ a.createdAt - b.createdAt <= FiveDays /\ b.createdAt - a.createdAt <= FiveDays

\* the table each list operation reads
ListTables == [getAllJobs |-> "jobs", getAllTasks |-> "tasks", getAllNotes |-> "notes",
               getAllFiles |-> "files", getAllFolders |-> "folders"]

\* the records of a table in the backend the store reads
ActiveRecords(tbl) ==
  IF InMemoryMode(Store) THEN MapValues(memoryStore[tbl]) ELSE database[tbl]

\* C17: a list operation called with userId u returns exactly the records of
\* its kind in the active backend whose userId is u (for files, the ones
\* that are not trashed), each once, in non-increasing createdAt order.
C17_ListsOwnedOrdered ==
  (last.op \in DOMAIN ListTables) =>
    LET tbl == ListTables[last.op]
        owned == {r \in ActiveRecords(tbl) :
                    r.userId = last.args.userId /\ (tbl = "files" => ~r.isTrashed)}
    IN /\ {last.ret[i] : i \in 1..Len(last.ret)} = owned
       /\ Len(last.ret) = Cardinality(owned)
       /\ \A i, j \in 1..Len(last.ret) :
            i < j => last.ret[i].createdAt >= last.ret[j].createdAt

\* C17: a list of two records, the one created later first
C17_Witness ==
  /\ last.op \in DOMAIN ListTables
  /\ Len(last.ret) = 2
  /\ last.ret[1].createdAt > last.ret[2].createdAt
  /\ last.ret[1].id > last.ret[2].id

\* the table each update operation and each hard delete writes
UpdateTables == [updateJob |-> "jobs", updateTask |-> "tasks", updateNote |-> "notes",
                 updateFile |-> "files", updateFolder |-> "folders"]
DeleteTables == [deleteJob |-> "jobs", deleteTask |-> "tasks", deleteNote |-> "notes",
                 deleteFolder |-> "folders"]
EntityTables == {"jobs", "tasks", "notes", "files", "folders"}

\* the records of a table that a backend holds after the step
HeldAfter(tbl) == database'[tbl] \cup MapValues(memoryStore'[tbl])

\* C18: an update of an id that no record has returns undefined without
\* raising and leaves every record as it was; an update of an existing id
\* returns and stores the old record with the supplied fields overridden and
\* updatedAt refreshed, and leaves every other record as it was.
C18_UpdateSemantics ==
  [][(last'.op \in DOMAIN UpdateTables /\ callsLeft' # callsLeft) =>
       LET tbl == UpdateTables[last'.op]
           old == {r \in Held(tbl) : r.id = last'.args.id}
           new == {Merged(r, last'.args.update, now) : r \in old}
       IN /\ ~last'.raised
          /\ last'.ret = new
          /\ HeldAfter(tbl) = (Held(tbl) \ old) \cup new
          /\ \A other \in EntityTables \ {tbl} : HeldAfter(other) = Held(other)]_vars

\* C18: an update has returned undefined for the id of a record that a
\* backend holds, and the record is as it was
C18_ExistingNotUpdated ==
  /\ last.op \in DOMAIN UpdateTables
  /\ last.ret = None
  /\ \E r \in Held(UpdateTables[last.op]) :
       r.id = last.args.id /\ r.updatedAt = r.createdAt

\* C20: a hard delete returns true exactly when the active backend held a
\* record with that id before the call; afterwards no record with that id
\* exists and every other record is as it was.
C20_HardDelete ==
  [][(last'.op \in DOMAIN DeleteTables /\ callsLeft' # callsLeft) =>
       LET tbl == DeleteTables[last'.op]
           old == {r \in ActiveRecords(tbl) : r.id = last'.args.id}
       IN /\ last'.ret = (old # {})
          /\ \A r \in HeldAfter(tbl) : r.id # last'.args.id
          /\ HeldAfter(tbl) = Held(tbl) \ old
          /\ \A other \in EntityTables \ {tbl} : HeldAfter(other) = Held(other)]_vars

\* C20: a hard delete has returned false and a backend still holds the
\* record with that id
C20_DeletedRecordKept ==
  /\ last.op \in DOMAIN DeleteTables
  /\ last.ret = FALSE
  /\ \E r \in Held(DeleteTables[last.op]) : r.id = last.args.id

\* C19: every stored job keeps the userId it was created with: no step
\* changes the userId of a job that a backend holds.
C19_OwnerNeverChanges ==
  [][\A before \in Held("jobs") : \A after \in Held("jobs")' :
       (after.id = before.id) => (after.userId = before.userId)]_vars

\* C19: a PUT /api/jobs/:id was answered 200 and the job now belongs to a
\* user who created no job
C19_OwnerChanged ==
  /\ last.op = "PUT /api/jobs/:id" /\ last.ret = 200
  /\ \E job \in Held("jobs") : job.id = last.args.body.id /\ job.userId = OtherUser

\* ============================================================ user routes
\* POST /api/auth/register and PATCH /api/auth/update-info, one store
\* operation at a time.  A handler that awaited the database is resumed by
\* a later event, so other requests run in between; an await of an
\* operation served from memory, or a check that is skipped, resumes in
\* the same turn of the event loop.
ContactEmails == {"a@x", ""}
ContactPhones == {"555", ""}

RegisterBodies == [username : Usernames, email : ContactEmails, phone : ContactPhones,
                   password : {"pw1"}]
UpdateInfoBodies == {[email |-> e] : e \in ContactEmails}
                      \cup {[phone |-> ph] : ph \in ContactPhones}

\* `if (email)`: the field is in the body and is not the empty string
Truthy(body, field) == field \in DOMAIN body /\ body[field] # ""

\* one store operation of a request q = [route, userId, body, at]: the call
\* made, the status answered (0: none yet), and the step that follows
userStep(s, q, id, f) ==
  LET skip == Return(Begin(s), None)
      taken(c) == c.ret # None /\ (q.route = "register" \/ \E u \in c.ret : u.id # q.userId)
  IN CASE q.at = "getUserByEmail" ->
            LET c == IF q.route = "register" \/ Truthy(q.body, "email")
                       THEN getUserByEmail(s, q.body.email, f) ELSE skip
            IN [c |-> c, status |-> IF taken(c) THEN 400 ELSE 0, next |-> "getUserByPhone"]
       [] q.at = "getUserByPhone" ->
            LET c == IF q.route = "register" \/ Truthy(q.body, "phone")
                       THEN getUserByPhone(s, q.body.phone, f) ELSE skip
            IN [c |-> c, status |-> IF taken(c) THEN 400 ELSE 0,
                next |-> IF q.route = "register" THEN "createUser" ELSE "updateUserInfo"]
       [] q.at = "createUser" ->
            [c |-> createUser(s, [q.body EXCEPT !.password = HashPassword(@)], id, f),
             status |-> 200, next |-> "done"]
       [] q.at = "updateUserInfo" ->
            LET c == updateUserInfo(s, q.userId, q.body, f)
            IN [c |-> c, status |-> IF c.ret THEN 200 ELSE 404, next |-> "done"]

\* the steps of q up to its answer or to its first await of the database
RECURSIVE userRun(_, _, _, _)
userRun(s, q, id, f) ==
  LET r == userStep(s, q, id, f)
  IN IF r.status # 0 \/ r.c.dbCalls > 0 THEN [c |-> r.c, status |-> r.status, next |-> r.next, q |-> q]
     ELSE userRun(r.c.s, [q EXCEPT !.at = r.next], id, f)

\* the effect of running request q, taken from the set `from`, on the state
UserServes(q, from, r) ==
  /\ useInMemoryStorage' = r.c.s.useInMemoryStorage
  /\ database' = r.c.s.database
  /\ memoryStore' = r.c.s.memoryStore
  /\ last' = [op |-> q.route, args |-> [userId |-> q.userId, body |-> q.body],
              ret |-> r.status, raised |-> FALSE, dbCalls |-> r.c.dbCalls,
              threw |-> r.c.threw, errBefore |-> dbErrorCaught, at |-> r.q.at]
  /\ dbErrorCaught' = (dbErrorCaught \/ r.c.threw)
  /\ nextId' = IF r.q.at = "createUser" THEN FreshId ELSE nextId
  /\ pending' = (pending \ from)
                  \cup (IF r.status = 0 THEN {[q EXCEPT !.at = r.next]} ELSE {})
  /\ UNCHANGED <<db, userQuotas, now, otpLog, sessions, accepted, chats, leaving,
                 quotaLog, DATABASE_URL, startup, wss>>

\* a request arrives: its number tells it from the others in flight
UserRequest(route, userId, body) ==
  \E f \in Faults(1) :
    LET q == [route |-> route, userId |-> userId, body |-> body,
              at |-> "getUserByEmail", req |-> callsLeft]
        r == userRun(Store, q, FreshId, f)
    IN /\ callsLeft > 0
       /\ Cardinality(pending) < MaxInFlight
       /\ r.q.at = "createUser" => nextId < MaxIds
       /\ callsLeft' = callsLeft - 1
       /\ UserServes(q, {}, r)

\* POST /api/auth/register
RegisterStart ==
  \E body \in RegisterBodies :
    /\ callsLeft > 0
    /\ UserRequest("register", NoSession, body)

\* PATCH /api/auth/update-info of the session of a registered user
UpdateInfoStart ==
  \E u \in Held("users"), body \in UpdateInfoBodies : UserRequest("update-info", u.id, body)

\* the database answers a suspended handler, which runs on
UserResume ==
  \E q \in pending, f \in Faults(1) :
    LET r == userRun(Store, q, FreshId, f)
    IN /\ r.q.at = "createUser" => nextId < MaxIds
       /\ UNCHANGED callsLeft
       /\ UserServes(q, {q}, r)

InitUsers == InitWith(MaxUserRequests, {})

NextUsers == RegisterStart \/ UpdateInfoStart \/ UserResume

SpecUsers == InitUsers /\ [][NextUsers]_vars

\* ------------------------------------------------------------------ C21
\* C21: after any sequence and interleaving of register and update-info
\* requests, no two stored User records have the same email, and no two
\* have the same phone.
C21_UsersUnique ==
  \A u, v \in Held("users") : u.id # v.id => (u.email # v.email /\ u.phone # v.phone)

\* two stored users share the empty email although no database call ever
\* failed and no request was in flight with another
C21_SameEmailStored ==
  /\ ~dbErrorCaught
  /\ \E u, v \in Held("users") : u.id # v.id /\ u.email = v.email

\* ============================================================== broadcast
\* WebSocket.readyState: `client.readyState === 1` asks for an open socket;
\* a socket that leaves goes on to closing and then to closed
OPEN == 1
CLOSING == OPEN + 1
CLOSED == OPEN + 2

Events == {"job:created", "task:deleted"}

\* JSON.stringify({ event, data }): the members in the order of the literal
Stringify(message) == <<"{", "event", message.event, "data", message.data, "}">>

\* client.send(messageStr) with no try/catch around it
SendUncaught(c, i, messageStr, throws) ==
  LET handed == [c EXCEPT !.clients[i].sent = Append(@, messageStr)]
  IN IF throws THEN [handed EXCEPT !.raised = TRUE] ELSE handed

\* client.send(messageStr) inside try/catch: the message is handed to the
\* socket, and an exception of send stops at the catch
TrySend(c, i, messageStr, throws) ==
  LET handed == [c EXCEPT !.clients[i].sent = Append(@, messageStr)]
  IN IF throws THEN Catch([handed EXCEPT !.raised = TRUE]) ELSE handed

\* clients.forEach from client i on; an exception leaving the callback ends
\* the loop.  throwing: the clients whose send throws.
RECURSIVE ForEachClient(_, _, _, _)
ForEachClient(c, i, messageStr, throwing) ==
  IF c.raised \/ i > Len(c.clients) THEN c
  ELSE ForEachClient(IF c.clients[i].readyState = OPEN
                       THEN TrySend(c, i, messageStr, i \in throwing)
                       ELSE c,
                     i + 1, messageStr, throwing)

broadcast(clients, event, data, throwing) ==
  ForEachClient([clients |-> clients, raised |-> FALSE], 1,
                Stringify([event |-> event, data |-> data]), throwing)

\* wss.on("connection"): a client joins wss.clients, open
Connection ==
  /\ Len(wss) < MaxClients
  /\ wss' = Append(wss, [readyState |-> OPEN, sent |-> <<>>])
  /\ last' = NoCall
  /\ UNCHANGED <<db, useInMemoryStorage, database, memoryStore, userQuotas, now,
                 nextId, callsLeft, dbErrorCaught, otpLog, sessions, accepted,
                 chats, leaving, quotaLog, DATABASE_URL, startup, pending>>

\* a client starts or ends its closing handshake; a closed socket is kept
\* here with what was handed to it
Closes ==
  \E i \in DOMAIN wss :
    /\ wss[i].readyState \in {OPEN, CLOSING}
    /\ wss' = [wss EXCEPT ![i].readyState = @ + 1]
    /\ last' = NoCall
    /\ UNCHANGED <<db, useInMemoryStorage, database, memoryStore, userQuotas, now,
                   nextId, callsLeft, dbErrorCaught, otpLog, sessions, accepted,
                   chats, leaving, quotaLog, DATABASE_URL, startup, pending>>

Broadcast ==
  \E event \in Events, data \in Ids, throwing \in SUBSET DOMAIN wss :
    LET c == broadcast(wss, event, data, throwing)
    IN /\ callsLeft > 0
       /\ callsLeft' = callsLeft - 1
       /\ wss' = c.clients
       /\ last' = [op |-> "broadcast", args |-> [event |-> event, data |-> data],
                   ret |-> Void, raised |-> c.raised, dbCalls |-> 0, threw |-> FALSE,
                   errBefore |-> dbErrorCaught, clients |-> wss, throwing |-> throwing]
       /\ UNCHANGED <<db, useInMemoryStorage, database, memoryStore, userQuotas, now,
                      nextId, dbErrorCaught, otpLog, sessions, accepted, chats,
                      leaving, quotaLog, DATABASE_URL, startup, pending>>

InitBroadcast == InitWith(MaxBroadcasts, {})

NextBroadcast == Connection \/ Closes \/ Broadcast

SpecBroadcast == InitBroadcast /\ [][NextBroadcast]_vars

\* ------------------------------------------------------------------ C22
\* C22: a broadcast hands its serialized message exactly once to every
\* client that was open, whatever the sends of the other clients threw,
\* hands nothing to a client that was not open, and never raises.
C22_BroadcastIsolates ==
  last.op = "broadcast" =>
    /\ ~last.raised
    /\ Len(wss) = Len(last.clients)
    /\ \A i \in DOMAIN wss :
         /\ wss[i].readyState = last.clients[i].readyState
         /\ wss[i].sent = IF last.clients[i].readyState = OPEN
                            THEN Append(last.clients[i].sent, Stringify(last.args))
                            ELSE last.clients[i].sent

\* a broadcast in which the send of an open client threw, with an open and
\* a closing client after it
C22_SendThrew ==
  /\ last.op = "broadcast"
  /\ \E i, j, k \in DOMAIN wss :
       /\ i < j /\ i < k
       /\ i \in last.throwing
       /\ last.clients[i].readyState = OPEN
       /\ last.clients[j].readyState = OPEN
       /\ last.clients[k].readyState = CLOSING

\* ========================================================== entity routes
\* what a handler answers: the store as it leaves it, the status, the
\* record in the response body (sent), and the broadcasts it made
Answer(calls, status, sent, events) ==
  [s |-> calls[Len(calls)].s, status |-> status,
   threw |-> \E i \in 1..Len(calls) : calls[i].threw,
   dbCalls |-> LET RECURSIVE Sum(_)
                   Sum(n) == IF n = 0 THEN 0 ELSE calls[n].dbCalls + Sum(n - 1)
               IN Sum(Len(calls)),
   sent |-> sent, events |-> events]

\* res.status(401).json({ error: "Not authenticated" }) before any store call
Unauthorized(s) == Answer(<<Return(Begin(s), Void)>>, 401, None, <<>>)

\* broadcast("<entity>:<what>", data)
EventName(tbl, what) == <<tbl, what>>
Event(tbl, what, data) == <<[event |-> EventName(tbl, what), data |-> data]>>

\* POST /api/jobs and POST /api/tasks: broadcast(.., record) stands between
\* the create and res.json on the path that answers 200
Announced(r, tbl) ==
  [s |-> r.s, status |-> r.status, threw |-> r.threw, dbCalls |-> r.dbCalls,
   sent |-> r.sent,
   events |-> IF r.status = 200 THEN Event(tbl, "created", r.sent) ELSE <<>>]

\* POST /api/notes
postNote(s, userId, body, id, t, fs) ==
  LET note == createNote(s, [userId |-> userId, title |-> body.title], id, t, fs[1])
  IN IF userId = NoSession THEN Unauthorized(s)
     ELSE Answer(<<note>>, 200, Some(note.ret), Event("notes", "created", Some(note.ret)))

\* PUT /api/jobs/:id, PUT and PATCH /api/tasks/:id: no look at the session
putRecord(s, tbl, id, body, t, fs) ==
  LET rec == UpdateRecord(s, tbl, id, body, t, fs[1])
  IN IF rec.ret = None THEN Answer(<<rec>>, 404, None, <<>>)
     ELSE Answer(<<rec>>, 200, rec.ret, Event(tbl, "updated", rec.ret))

\* PATCH /api/notes/:id: a session is asked for, whoever it belongs to
patchNote(s, userId, id, body, t, fs) ==
  IF userId = NoSession THEN Unauthorized(s) ELSE putRecord(s, "notes", id, body, t, fs)

\* DELETE /api/jobs/:id, /api/tasks/:id, /api/notes/:id: no look at the
\* session
delRecord(s, tbl, id, fs) ==
  LET deleted == DeleteRecord(s, tbl, id, fs[1])
  IN IF ~deleted.ret THEN Answer(<<deleted>>, 404, None, <<>>)
     ELSE Answer(<<deleted>>, 204, None, Event(tbl, "deleted", id))

\* `!file`: nothing found
Missing(found, userId) == found = None

\* `!file || file.userId !== req.session.userId`
NotOwned(found, userId) == found = None \/ \E r \in found : r.userId # userId

\* POST /api/files/upload (hasFile: multer stored an upload in req.file)
uploadFile(s, userId, body, id, t, fs) ==
  LET file == createFile(s, [userId |-> userId, name |-> body.name], id, t, fs[1])
  IN IF userId = NoSession THEN Unauthorized(s)
     ELSE IF ~body.hasFile THEN Answer(<<Return(Begin(s), Void)>>, 400, None, <<>>)
     ELSE Answer(<<file>>, 200, Some(file.ret), <<>>)

\* GET /api/files
getFiles(s, userId, fs) ==
  LET files == getAllFiles(s, userId, fs[1])
  IN IF userId = NoSession THEN Unauthorized(s)
     ELSE Answer(<<files>>, 200, Range(files.ret), <<>>)

\* GET /api/files/:id, and GET /api/files/:id/download of a file on disk
getFile(s, userId, id, fs) ==
  LET file == getFileById(s, id, fs[1])
  IN IF userId = NoSession THEN Unauthorized(s)
     ELSE IF NotOwned(file.ret, userId) THEN Answer(<<file>>, 404, None, <<>>)
     ELSE Answer(<<file>>, 200, file.ret, <<>>)

\* PATCH /api/files/:id and PATCH /api/folders/:id: rename
renameRecord(s, tbl, userId, id, body, t, fs) ==
  LET rec == GetRecord(s, tbl, id, fs[1])
      updated == UpdateRecord(rec.s, tbl, id, [name |-> body.name], t, fs[2])
  IN IF userId = NoSession THEN Unauthorized(s)
     ELSE IF NotOwned(rec.ret, userId) THEN Answer(<<rec>>, 404, None, <<>>)
     ELSE IF body.name = "" THEN Answer(<<rec>>, 400, None, <<>>)
     ELSE Answer(<<rec, updated>>, 200, updated.ret, <<>>)

\* DELETE /api/files/:id: to the trash
delFile(s, userId, id, t, fs) ==
  LET file == getFileById(s, id, fs[1])
      deleted == deleteFile(file.s, id, t, fs[2])
  IN IF userId = NoSession THEN Unauthorized(s)
     ELSE IF NotOwned(file.ret, userId) THEN Answer(<<file>>, 404, None, <<>>)
     ELSE Answer(<<file, deleted>>, 200, None, <<>>)

\* POST /api/folders
postFolder(s, userId, body, id, t, fs) ==
  LET folder == createFolder(s, [userId |-> userId, name |-> body.name], id, t, fs[1])
  IN IF userId = NoSession THEN Unauthorized(s)
     ELSE Answer(<<folder>>, 200, Some(folder.ret), <<>>)

\* DELETE /api/folders/:id
delFolder(s, userId, id, fs) ==
  LET folder == getFolderById(s, id, fs[1])
      deleted == deleteFolder(folder.s, id, fs[2])
  IN IF userId = NoSession THEN Unauthorized(s)
     ELSE IF NotOwned(folder.ret, userId) THEN Answer(<<folder>>, 404, None, <<>>)
     ELSE Answer(<<folder, deleted>>, 200, None, <<>>)

\* the effect of a served request r of a route on the state; its broadcast
\* goes to the clients, of which those in throwing fail the send
Routes(verb, tbl, userId, args, r) ==
  /\ callsLeft > 0
  /\ callsLeft' = callsLeft - 1
  /\ useInMemoryStorage' = r.s.useInMemoryStorage
  /\ database' = r.s.database
  /\ memoryStore' = r.s.memoryStore
  /\ last' = [op |-> verb, tbl |-> tbl, args |-> [userId |-> userId] @@ args,
              ret |-> r.status, raised |-> FALSE, dbCalls |-> r.dbCalls,
              threw |-> r.threw, errBefore |-> dbErrorCaught, sent |-> r.sent,
              events |-> r.events]
  /\ dbErrorCaught' = (dbErrorCaught \/ r.threw)
  /\ nextId' = IF verb = "POST" /\ r.status = 200 THEN FreshId ELSE nextId
  /\ \E throwing \in SUBSET DOMAIN wss :
       wss' = IF r.events = <<>> THEN wss
              ELSE broadcast(wss, r.events[1].event, r.events[1].data, throwing).clients
  /\ UNCHANGED <<db, userQuotas, now, otpLog, sessions, accepted, chats, leaving,
                 quotaLog, DATABASE_URL, startup, pending>>

\* who sends a request: nobody logged in, or the session of a user
Senders == {NoSession} \cup Owners

NewNames == {"t1"}
Renames == {"t2", ""}

Post ==
  \E userId \in Senders, name \in NewNames, fs \in OneFault(<<1>>) :
    \/ Routes("POST", "jobs", userId, [id |-> FreshId],
              Announced(postJob(Store, userId, [title |-> name], FreshId, now, fs), "jobs"))
    \/ Routes("POST", "tasks", userId, [id |-> FreshId],
              Announced(postTask(Store, userId, [url |-> <<>>], FreshId, now, <<0, fs[1]>>),
                        "tasks"))
    \/ Routes("POST", "notes", userId, [id |-> FreshId],
              postNote(Store, userId, [title |-> name], FreshId, now, fs))

PostFolder ==
  \E userId \in Senders, name \in NewNames, fs \in OneFault(<<1>>) :
    Routes("POST", "folders", userId, [id |-> FreshId],
           postFolder(Store, userId, [name |-> name], FreshId, now, fs))

Upload ==
  \E userId \in Senders, name \in NewNames, hasFile \in BOOLEAN, fs \in OneFault(<<1>>) :
    Routes("POST", "files", userId, [id |-> FreshId],
           uploadFile(Store, userId, [name |-> name, hasFile |-> hasFile], FreshId, now, fs))

\* PUT /api/jobs/:id, PUT or PATCH /api/tasks/:id, PATCH /api/notes/:id
Put ==
  \E userId \in Senders, id \in Ids, fs \in OneFault(<<1>>) :
    \/ Routes("PUT", "jobs", userId, [id |-> id],
              putRecord(Store, "jobs", id, [title |-> "t2"], now, fs))
    \/ Routes("PUT", "tasks", userId, [id |-> id],
              putRecord(Store, "tasks", id, [url |-> <<"a">>], now, fs))
    \/ Routes("PATCH", "notes", userId, [id |-> id],
              patchNote(Store, userId, id, [title |-> "t2"], now, fs))

\* PATCH /api/files/:id, PATCH /api/folders/:id
Rename ==
  \E userId \in Senders, id \in Ids, tbl \in {"files", "folders"}, name \in Renames,
     fs \in OneFault(<<1, 1>>) :
    Routes("PATCH", tbl, userId, [id |-> id],
           renameRecord(Store, tbl, userId, id, [name |-> name], now, fs))

\* DELETE /api/jobs/:id, /api/tasks/:id, /api/notes/:id
Delete ==
  \E userId \in Senders, id \in Ids, tbl \in {"jobs", "tasks", "notes"},
     fs \in OneFault(<<1>>) :
    Routes("DELETE", tbl, userId, [id |-> id], delRecord(Store, tbl, id, fs))

\* DELETE /api/files/:id, DELETE /api/folders/:id
Remove ==
  \E userId \in Senders, id \in Ids, fs \in OneFault(<<1, 1>>) :
    \/ Routes("DELETE", "files", userId, [id |-> id], delFile(Store, userId, id, now, fs))
    \/ Routes("DELETE", "folders", userId, [id |-> id], delFolder(Store, userId, id, fs))

\* GET /api/files, GET /api/files/:id, GET /api/files/:id/download
Get ==
  \E userId \in Senders, id \in Ids, fs \in OneFault(<<1>>) :
    \/ Routes("GET", "files", userId, [id |-> id], getFile(Store, userId, id, fs))
    \/ Routes("LIST", "files", userId, [id |-> id], getFiles(Store, userId, fs))

InitRoutes == InitWith(MaxRouteRequests, {})

NextRoutes == Post \/ PostFolder \/ Upload \/ Put \/ Rename \/ Delete \/ Remove

SpecRoutes == InitRoutes /\ [][NextRoutes]_vars

\* ------------------------------------------------------------------ C23
\* the routes that create, update or delete a Job, Task, Note, File or Folder
Mutations == {"POST", "PUT", "PATCH", "DELETE"}
Succeeded == {200, 204}

\* C23: a request of a mutating route that succeeds has made exactly one
\* broadcast, and one that fails or finds nothing has made none.
C23_MutationAnnounced ==
  last.op \in Mutations =>
    Len(last.events) = (IF last.ret \in Succeeded THEN 1 ELSE 0)

\* an upload answered 200 with the file it stored, announced to nobody
C23_UploadNotAnnounced ==
  /\ last.op = "POST" /\ last.tbl = "files"
  /\ last.ret = 200
  /\ last.sent \subseteq Held("files")
  /\ last.sent # None
  /\ last.events = <<>>

\* ------------------------------------------------------------------ C29
\* C29: a request without a session to a route that creates, updates or
\* deletes a Job, Task, Note, File or Folder is answered 401, leaves every
\* stored record as it was, and makes no broadcast.
C29_NoSessionNoChange ==
  [][(last'.op \in Mutations /\ last'.args.userId = NoSession)
       => /\ last'.ret = 401
          /\ database' = database
          /\ memoryStore' = memoryStore
          /\ last'.events = <<>>]_vars

\* a request without a session deleted a stored job and was answered 204,
\* with no database call failing
C29_DeletedWithoutSession ==
  /\ last.op = "DELETE" /\ last.tbl = "jobs"
  /\ last.args.userId = NoSession
  /\ last.ret = 204
  /\ ~dbErrorCaught
  /\ \A job \in Held("jobs") : job.id # last.args.id
  /\ Len(last.events) = 1

\* ============================================== file and folder routes
InitFiles == InitWith(MaxFileRequests, {})

NextFiles == Upload \/ PostFolder \/ Rename \/ Remove \/ Get \/ Tick

SpecFiles == InitFiles /\ [][NextFiles]_vars

\* ------------------------------------------------------------------ C24
\* C24: get-by-id, download, rename and delete of a File, and rename and
\* delete of a Folder, sent by a session whose user does not own the record
\* (or by no session) are answered 404 or 401, leave the record as it was
\* and send nothing of it.
C24_OwnershipEnforced ==
  [][\A tbl \in {"files", "folders"} :
       \A rec \in Held(tbl) :
         (/\ last'.op \in {"GET", "PATCH", "DELETE"}
          /\ last'.tbl = tbl
          /\ last'.args.id = rec.id
          /\ last'.args.userId # rec.userId)
           => /\ last'.ret \in {401, 404}
              /\ rec \in HeldAfter(tbl)
              /\ last'.sent = None]_vars

\* the session of one user asked to rename the file of another, which the
\* store it reads holds, and was answered 404
C24_ForeignRename ==
  /\ last.op = "PATCH" /\ last.tbl = "files"
  /\ last.args.userId # NoSession
  /\ last.ret = 404
  /\ ~dbErrorCaught
  /\ \E file \in Held("files") : file.id = last.args.id /\ file.userId # last.args.userId

\* ------------------------------------------------------------------ C30
\* C30: after any sequence of upload, rename and delete requests every
\* stored File has isTrashed exactly when its trashedAt is set, a trashed
\* file stays trashed, and GET /api/files never lists a trashed file.
C30_TrashAbsorbing ==
  [][/\ \A file \in HeldAfter("files") : file.isTrashed <=> (file.trashedAt # NullDate)
     /\ \A file \in Held("files") :
          file.isTrashed => \A after \in HeldAfter("files") :
                              after.id = file.id => after.isTrashed
     /\ last'.op = "LIST" =>
          \A listed \in last'.sent :
            ~\E file \in Held("files") : file.id = listed.id /\ file.isTrashed]_vars

\* the owner lists the files after one was trashed and later renamed
C30_ListedAfterTrash ==
  /\ last.op = "LIST" /\ last.ret = 200
  /\ \E file \in Held("files") :
       /\ file.userId = last.args.userId
       /\ file.isTrashed /\ file.name = "t2"
       /\ file.updatedAt > file.trashedAt

\* ------------------------------------------------------------------ C25
\* C25: a store operation in which a database statement throws leaves the
\* in-memory flag set when it returns, storeOtp and verifyOtp included, and
\* the flag, once set, is never cleared.
C25_ErrorSetsFlag ==
  [][/\ last'.threw => useInMemoryStorage'
     /\ useInMemoryStorage => useInMemoryStorage']_vars

\* a storeOtp whose database statement threw kept the code in the OTP map
\* and returned with the flag still clear
C25_OtpErrorKeepsDatabase ==
  /\ last.op = "storeOtp"
  /\ last.threw
  /\ ~last.raised
  /\ ~useInMemoryStorage
  /\ db

\* ================================================================ start-up
\* the callback of pool.query('SELECT NOW()', ...): on an error it assigns
\* the module's useInMemoryStorage.  The store object was constructed when
\* the module was evaluated, and its field holds the value the binding had
\* then.
ConnectionTested ==
  \E err \in BOOLEAN :
    /\ startup.testing
    /\ startup' = [useInMemoryStorage |-> startup.useInMemoryStorage \/ err,
                   testing |-> FALSE]
    /\ last' = NoCall
    /\ UNCHANGED <<db, useInMemoryStorage, database, memoryStore, userQuotas, now,
                   nextId, callsLeft, dbErrorCaught, otpLog, sessions, accepted,
                   chats, leaving, quotaLog, DATABASE_URL, pending, wss>>

InitStartup == InitWith(MaxStartupCalls, {})

NextStartup == ConnectionTested \/ UserCalls \/ JobCalls

SpecStartup == InitStartup /\ [][NextStartup]_vars

\* ------------------------------------------------------------------ C26
\* C26: with a connection string configured, once the callback of the
\* start-up connection test has reported an error, every store operation is
\* served without a database call.
C26_FailedTestMeansMemory ==
  [][(db /\ ~startup.testing /\ startup.useInMemoryStorage /\ last'.op # "none")
       => last'.dbCalls = 0]_vars

\* after the connection test failed, createJob stored its job in the
\* database
C26_DatabaseStillUsed ==
  /\ db /\ ~startup.testing /\ startup.useInMemoryStorage
  /\ last.op = "createJob"
  /\ last.dbCalls > 0
  /\ ~last.errBefore
  /\ \E job \in database.jobs : job.id = last.ret.id

\* ==================================================== concurrent storeOtp
\* storeOtp one database statement at a time: between its delete and its
\* insert the call waits for the database, and other calls run.  The
\* statements of this run throw only on the table's UNIQUE(identifier, type).
OtpRecord(identifier, otp, type, t) ==
  [identifier |-> identifier, otp |-> otp, type |-> type, expiresAt |-> t + OtpTtl]

\* the in-memory fallback of storeOtp
OtpInMemory(c, rec) ==
  Return([c EXCEPT !.s.memoryStore.otpCodes =
                     MapSet(@, OtpKey(rec.identifier, rec.type), rec)], Void)

\* up to the await of db.delete
storeOtpDelete(s, rec) ==
  LET c1 == DbExec(Begin(s), 0, [s.database EXCEPT !.otpCodes =
                                   @ \ DbOtpFor(s.database, rec.identifier, rec.type)])
  IN IF s.db THEN c1 ELSE OtpInMemory(Begin(s), rec)

\* from there to the return: db.insert, which the constraint may refuse
storeOtpInsert(s, rec) ==
  LET c2 == DbExecChecked(Begin(s), 0,
                          DbOtpFor(s.database, rec.identifier, rec.type) # {},
                          [s.database EXCEPT !.otpCodes = @ \cup {rec}])
  IN IF c2.raised THEN OtpInMemory(Catch(c2), rec) ELSE Return(c2, Void)

\* the effect of a step c of a storeOtp call on the state
OtpSteps(rec, c, at) ==
  /\ useInMemoryStorage' = c.s.useInMemoryStorage
  /\ database' = c.s.database
  /\ memoryStore' = c.s.memoryStore
  /\ last' = [op |-> "storeOtp",
              args |-> [identifier |-> rec.identifier, otp |-> rec.otp, type |-> rec.type],
              ret |-> c.ret, raised |-> c.raised, dbCalls |-> c.dbCalls,
              threw |-> c.threw, errBefore |-> dbErrorCaught, at |-> at]
  /\ dbErrorCaught' = (dbErrorCaught \/ c.threw)
  /\ UNCHANGED <<db, userQuotas, now, nextId, sessions, accepted, chats, leaving,
                 quotaLog, DATABASE_URL, startup, wss>>

StoreOtpStart ==
  \E p \in OtpPairs, otp \in OtpValues :
    LET rec == OtpRecord(p[1], otp, p[2], now)
    IN /\ callsLeft > 0
       /\ Cardinality(pending) < MaxInFlight
       /\ callsLeft' = callsLeft - 1
       /\ OtpSteps(rec, storeOtpDelete(Store, rec), "delete")
       /\ pending' = IF db THEN pending \cup {[rec |-> rec, req |-> callsLeft]} ELSE pending
       /\ otpLog' = [otpLog EXCEPT ![p] =
                       [cur |-> otp, prev |-> IF @.cur = otp THEN @.prev ELSE @.cur,
                        issuedAt |-> now, consumed |-> FALSE]]

StoreOtpEnd ==
  \E q \in pending :
    /\ OtpSteps(q.rec, storeOtpInsert(Store, q.rec), "insert")
    /\ pending' = pending \ {q}
    /\ UNCHANGED <<callsLeft, otpLog>>

InitOtpRace == InitWith(MaxOtpRaceCalls, {})

NextOtpRace == StoreOtpStart \/ StoreOtpEnd

SpecOtpRace == InitOtpRace /\ [][NextOtpRace]_vars

\* ------------------------------------------------------------------ C27
\* the records kept for a pair, in the table and in the map
OtpRecords(p) ==
  DbOtpFor(database, p[1], p[2])
    \cup {memoryStore.otpCodes[k] : k \in {OtpKey(p[1], p[2])} \cap DOMAIN memoryStore.otpCodes}

\* the codes verifyOtp accepts for a pair
LiveCodes(p) == {otp \in OtpValues : verifyOtp(Store, p[1], otp, p[2], now, 0).ret = TRUE}

\* C27: once the storeOtp calls for a pair have completed, however they
\* interleaved, exactly one code is accepted by verifyOtp for the pair and
\* at most one record for it exists across the table and the map.
C27_OneLiveCode ==
  pending = {} =>
    \A p \in OtpPairs :
      /\ Cardinality(OtpRecords(p)) <= 1
      /\ Cardinality(LiveCodes(p)) = (IF otpLog[p].cur = NoOtp THEN 0 ELSE 1)

\* two calls for one pair interleaved and completed: the table holds the
\* code of one, the map the code of the other, and verifyOtp accepts both
C27_BothCodesLive ==
  /\ pending = {}
  /\ \E p \in OtpPairs :
       /\ LiveCodes(p) = OtpValues
       /\ Cardinality(DbOtpFor(database, p[1], p[2])) = 1
       /\ OtpKey(p[1], p[2]) \in DOMAIN memoryStore.otpCodes

\* ===================================================== concurrent chats
\* POST /api/chat of a logged-in user, up to the fetch of the model's
\* answer; used is the quota the handler read
ChatAsk ==
  \E userId \in Owners, geminiApiKey \in BOOLEAN :
    /\ chats[userId] < MaxInFlight
    /\ ChatServes("chat", userId, chatAsks(Store, userId, geminiApiKey),
                  getUserQuota(Store, userId).ret)
    /\ chats' = IF chatAsks(Store, userId, geminiApiKey).status = 0
                  THEN [chats EXCEPT ![userId] = @ + 1] ELSE chats
    /\ UNCHANGED <<callsLeft, sessions, leaving>>

InitQuotaRace == InitWith(MaxInFlight, {})

NextQuotaRace == ChatAsk \/ ChatFinish

SpecQuotaRace == InitQuotaRace /\ [][NextQuotaRace]_vars

\* ------------------------------------------------------------------ C28
\* C28: however the chat requests of a user interleave, the quota of the
\* user and the number of answered chats since the last reset stay at or
\* below the daily limit, and a request that goes on to the downstream call
\* read a quota below the limit.
C28_QuotaBounded ==
  /\ \A userId \in Owners :
       /\ getUserQuota(Store, userId).ret <= dailyLimit
       /\ quotaLog[userId].count <= dailyLimit
  /\ (last.op = "chat" /\ last.ret = 0) => last.used < dailyLimit

\* a chat was answered 200 and left the quota of its user above the limit
C28_QuotaExceeded ==
  /\ last.op = "chat" /\ last.ret = 200
  /\ getUserQuota(Store, last.args.userId).ret > dailyLimit
  /\ quotaLog[last.args.userId].count > dailyLimit
====
